---- MODULE Spec2Model ----
(***************************************************************************)
(* A model of structured_skills: the manifest validator, the skill         *)
(* registry and its resource resolver.                                     *)
(*                                                                         *)
(* Text.  A Python str is a sequence of atoms.  An atom is one character   *)
(* ("a", "-", ".", "/") or a literal word that the code only ever handles  *)
(* whole ("scripts", "py", "SKILL").  A file's text is a sequence of       *)
(* pieces (records tagged by t): the pieces of a manifest are the "---"    *)
(* delimiter, a YAML document, white space and prose; the pieces of a      *)
(* script are its statements.                                              *)
(***************************************************************************)
EXTENDS Naturals, Sequences, FiniteSets, TLC

VARIABLES disk, registry, op, result, process
vars == <<disk, registry, op, result, process>>

\* Python's None where a str or a path is expected: no atoms at all (no
\* path and no directory name of the model is empty).
None == <<>>

(***************************************************************************)
(* str helpers                                                             *)
(***************************************************************************)
Contains(s, a) == \E i \in 1..Len(s) : s[i] = a

IsSpace(a) == a \in {" ", "\n"}

RECURSIVE LStrip(_)
LStrip(s) == IF s # <<>> /\ IsSpace(Head(s)) THEN LStrip(Tail(s)) ELSE s

RECURSIVE RStrip(_)
RStrip(s) ==
  IF s # <<>> /\ IsSpace(s[Len(s)]) THEN RStrip(SubSeq(s, 1, Len(s) - 1)) ELSE s

Strip(s) == RStrip(LStrip(s))

Letters == {"a", "b", "c", "f", "i", "s", "z", "A", "B", "zh", "ffi"}
Digits == {"1", "2"}

LowerAtom(a) == IF a = "A" THEN "a" ELSE IF a = "B" THEN "b" ELSE a
Lower(s) == [i \in 1..Len(s) |-> LowerAtom(s[i])]

\* unicodedata.normalize("NFKC", s): "fw_a" stands for the fullwidth letter
\* U+FF41 and "ffi" for the ligature U+FB03, the compatibility characters
\* of the alphabet (both lowercase letters); "zh" stands for a non-Latin
\* letter.
NfkcAtom(a) ==
  IF a = "fw_a" THEN <<"a">> ELSE IF a = "ffi" THEN <<"f", "f", "i">> ELSE <<a>>

RECURSIVE NFKC(_)
NFKC(s) == IF s = <<>> THEN <<>> ELSE NfkcAtom(Head(s)) \o NFKC(Tail(s))

IsAlnum(a) == a \in Letters \cup Digits

\* Python's order of str values, on the letters of the skill names and the
\* module names the scripts import.
AtomOrder == <<"a", "b", "c", "numpy", "pkg", "relative", "requests", "yaml", "fw_a">>
Rank(a) == IF \E i \in 1..Len(AtomOrder) : AtomOrder[i] = a
           THEN CHOOSE i \in 1..Len(AtomOrder) : AtomOrder[i] = a
           ELSE Len(AtomOrder) + 1

RECURSIVE Sorted(_)
Sorted(S) ==
  IF S = {} THEN <<>>
  ELSE LET m == CHOOSE x \in S : \A y \in S : Rank(x[1]) <= Rank(y[1])
       IN <<m>> \o Sorted(S \ {m})

\* str order x < y.
RECURSIVE StrLess(_, _)
StrLess(x, y) ==
  IF y = <<>> THEN FALSE
  ELSE IF x = <<>> THEN TRUE
  ELSE IF Rank(Head(x)) # Rank(Head(y)) THEN Rank(Head(x)) < Rank(Head(y))
  ELSE StrLess(Tail(x), Tail(y))

(***************************************************************************)
(* validator.py                                                            *)
(***************************************************************************)
MAX_SKILL_NAME_LENGTH == 64
MAX_DESCRIPTION_LENGTH == 1024
MAX_COMPATIBILITY_LENGTH == 500

STDLIB_MODULES == {"os", "sys", "json", "pathlib", "argparse"}

ALLOWED_FIELDS ==
  {"name", "description", "license", "allowed-tools", "metadata", "compatibility"}

\* One validation error: the message and what it names.
E(msg, arg) == [msg |-> msg, arg |-> arg]

\* YAML values as strictyaml hands them over: str, list or mapping.
YStr(s) == [t |-> "str", v |-> s]
YList(l) == [t |-> "list", v |-> l]
YMap(m) == [t |-> "map", v |-> m]

\* A directory's content: tree maps the paths below it (atoms joined by
\* "/") to nodes, a node is a directory or a file with its text.
Dir == [dir |-> TRUE, text |-> <<>>]
File(text) == [dir |-> FALSE, text |-> text]

exists(tree, p) == p \in DOMAIN tree

find_skill_md(tree) ==
  IF exists(tree, <<"SKILL", ".", "md">>) THEN <<"SKILL", ".", "md">>
  ELSE IF exists(tree, <<"skill", ".", "md">>) THEN <<"skill", ".", "md">>
  ELSE None

\* content.split("---", 2): the text before the first delimiter, between
\* the first two, and everything after the second.
DelimAt(content) == {i \in 1..Len(content) : content[i].t = "delim"}
Min(S) == CHOOSE x \in S : \A y \in S : x <= y

\* content.split("---"), with no limit on the number of segments.
RECURSIVE split_every_dash(_)
split_every_dash(content) ==
  IF DelimAt(content) = {} THEN <<content>>
  ELSE <<SubSeq(content, 1, Min(DelimAt(content)) - 1)>>
       \o split_every_dash(SubSeq(content, Min(DelimAt(content)) + 1, Len(content)))

split_dashes(content) ==
  LET ds == DelimAt(content) IN
  IF ds = {} THEN <<content>>
  ELSE LET i == Min(ds)
           rest == {k \in ds : k > i}
       IN IF rest = {} THEN <<SubSeq(content, 1, i - 1), SubSeq(content, i + 1, Len(content))>>
          ELSE LET j == Min(rest)
               IN <<SubSeq(content, 1, i - 1), SubSeq(content, i + 1, j - 1),
                    SubSeq(content, j + 1, Len(content))>>

RECURSIVE strip_pieces(_)
strip_pieces(c) ==
  IF c # <<>> /\ c[1].t = "ws" THEN strip_pieces(Tail(c))
  ELSE IF c # <<>> /\ c[Len(c)].t = "ws" THEN strip_pieces(SubSeq(c, 1, Len(c) - 1))
  ELSE c

\* strictyaml.load of the header: the one YAML document between the
\* delimiters (white space around it is insignificant); anything else is
\* no YAML mapping at all.
yaml_load(header) ==
  LET h == strip_pieces(header) IN
  IF Len(h) = 1 /\ h[1].t = "yaml" THEN h[1]
  ELSE [t |-> "yaml", root |-> "scalar", map |-> <<>>]

\* metadata["metadata"] of a mapping: lists kept, other values str()-ed.
process_metadata(m) ==
  IF "metadata" \in DOMAIN m /\ m["metadata"].t = "map"
  THEN [m EXCEPT !["metadata"] =
          YMap([k \in DOMAIN m["metadata"].v |->
                  IF m["metadata"].v[k].t = "list" THEN m["metadata"].v[k]
                  ELSE YStr(m["metadata"].v[k].v)])]
  ELSE m

Parsed(err, metadata, body) == [err |-> err, metadata |-> metadata, body |-> body]

parse_frontmatter(content) ==
  LET load(doc, body) ==
        IF doc.root \in {"invalid", "tagged"}
        THEN Parsed("Invalid YAML in frontmatter", <<>>, <<>>)
        ELSE IF doc.root # "map"
        THEN Parsed("SKILL.md frontmatter must be a YAML mapping", <<>>, <<>>)
        ELSE Parsed("", process_metadata(doc.map), body)
      parse(parts) ==
        IF Len(parts) < 3
        THEN Parsed("SKILL.md frontmatter not properly closed with ---", <<>>, <<>>)
        ELSE load(yaml_load(parts[2]), strip_pieces(parts[3]))
  IN IF content = <<>> \/ content[1].t # "delim"
     THEN Parsed("SKILL.md must start with YAML frontmatter (---)", <<>>, <<>>)
     ELSE parse(split_dashes(content))

\* The scripts of scripts/: the paths scripts/<one component>.py.
IsScriptPath(p) ==
  /\ Len(p) >= 5
  /\ p[1] = "scripts" /\ p[2] = "/"
  /\ p[Len(p) - 1] = "." /\ p[Len(p)] = "py"
  /\ ~Contains(SubSeq(p, 3, Len(p)), "/")

\* find_scripts: err is set when scripts/ exists and holds no *.py.
find_scripts(tree) ==
  LET list(scripts) ==
        IF scripts = {}
        THEN [err |-> "scripts/ directory exists but no Python scripts found", scripts |-> {}]
        ELSE [err |-> "", scripts |-> scripts]
  IN IF ~exists(tree, <<"scripts">>) THEN [err |-> "", scripts |-> {}]
     ELSE list({p \in DOMAIN tree : IsScriptPath(p)})

\* ast.parse succeeds on a text made of statements only.
Parsable(content) == \A i \in 1..Len(content) : content[i].t \notin {"bad", "delim", "yaml", "txt"}

\* module.split(".")[0]
FirstSegment(m) ==
  IF Contains(m, ".") THEN SubSeq(m, 1, Min({i \in 1..Len(m) : m[i] = "."}) - 1) ELSE m

extract_imports(content) ==
  IF ~Parsable(content) THEN {}
  ELSE LET imp == {i \in 1..Len(content) : content[i].t = "import"} IN
    {FirstSegment(content[i].module) : i \in
      {i \in imp :
         /\ content[i].form = "from" => content[i].module # <<>>
         /\ content[i].form = "from" => FirstSegment(content[i].module) # <<"relative">>
         /\ FirstSegment(content[i].module)[1] \notin STDLIB_MODULES}}

\* _validate_name without the rule on consecutive hyphens.
_validate_name_hyphens_unchecked(name, dir_name) ==
  LET rules(n) ==
    (IF Len(n) > MAX_SKILL_NAME_LENGTH THEN <<E("exceeds character limit", n)>> ELSE <<>>)
    \o (IF n # Lower(n) THEN <<E("must be lowercase", n)>> ELSE <<>>)
    \o (IF n[1] = "-" \/ n[Len(n)] = "-"
        THEN <<E("Skill name cannot start or end with a hyphen", <<>>)>> ELSE <<>>)
    \o (IF ~ \A i \in 1..Len(n) : IsAlnum(n[i]) \/ n[i] = "-"
        THEN <<E("contains invalid characters", n)>> ELSE <<>>)
    \o (IF dir_name # None /\ NFKC(dir_name) # n
        THEN <<E("Directory name must match skill name", n)>> ELSE <<>>)
  IN IF name.t # "str" \/ name.v = <<>> \/ Strip(name.v) = <<>>
     THEN <<E("Field 'name' must be a non-empty string", <<>>)>>
     ELSE rules(NFKC(Strip(name.v)))

_validate_name(name, dir_name) ==
  LET rules(n) ==
    (IF Len(n) > MAX_SKILL_NAME_LENGTH THEN <<E("exceeds character limit", n)>> ELSE <<>>)
    \o (IF n # Lower(n) THEN <<E("must be lowercase", n)>> ELSE <<>>)
    \o (IF n[1] = "-" \/ n[Len(n)] = "-"
        THEN <<E("Skill name cannot start or end with a hyphen", <<>>)>> ELSE <<>>)
    \o (IF \E i \in 1..(Len(n) - 1) : n[i] = "-" /\ n[i + 1] = "-"
        THEN <<E("Skill name cannot contain consecutive hyphens", <<>>)>> ELSE <<>>)
    \o (IF ~ \A i \in 1..Len(n) : IsAlnum(n[i]) \/ n[i] = "-"
        THEN <<E("contains invalid characters", n)>> ELSE <<>>)
    \o (IF dir_name # None /\ NFKC(dir_name) # n
        THEN <<E("Directory name must match skill name", n)>> ELSE <<>>)
  IN IF name.t # "str" \/ name.v = <<>> \/ Strip(name.v) = <<>>
     THEN <<E("Field 'name' must be a non-empty string", <<>>)>>
     ELSE rules(NFKC(Strip(name.v)))

_validate_description(description) ==
  IF description.t # "str" \/ description.v = <<>> \/ Strip(description.v) = <<>>
  THEN <<E("Field 'description' must be a non-empty string", <<>>)>>
  ELSE IF Len(description.v) > MAX_DESCRIPTION_LENGTH
  THEN <<E("Description exceeds character limit", <<>>)>>
  ELSE <<>>

_validate_compatibility(compatibility) ==
  IF compatibility.t # "str" THEN <<E("Field 'compatibility' must be a string", <<>>)>>
  ELSE IF Len(compatibility.v) > MAX_COMPATIBILITY_LENGTH
  THEN <<E("Compatibility exceeds character limit", <<>>)>>
  ELSE <<>>

_validate_metadata_fields(metadata) ==
  LET extra == DOMAIN metadata \ ALLOWED_FIELDS IN
  IF extra # {} THEN <<E("Unexpected fields in frontmatter", Sorted({<<k>> : k \in extra}))>>
  ELSE <<>>

validate_metadata(metadata, dir_name) ==
  _validate_metadata_fields(metadata)
  \o (IF "name" \notin DOMAIN metadata
      THEN <<E("Missing required field in frontmatter: name", <<>>)>>
      ELSE _validate_name(metadata["name"], dir_name))
  \o (IF "description" \notin DOMAIN metadata
      THEN <<E("Missing required field in frontmatter: description", <<>>)>>
      ELSE _validate_description(metadata["description"]))
  \o (IF "compatibility" \in DOMAIN metadata
      THEN _validate_compatibility(metadata["compatibility"]) ELSE <<>>)

\* What a validation returns: a list of errors, or the exception it raised.
Returned(errors) == [raised |-> "", errors |-> errors]
Raised(exc) == [raised |-> exc, errors |-> <<>>]

all_imports(tree, scripts) == UNION {extract_imports(tree[p].text) : p \in scripts}

\* raw_deps of a metadata mapping: a str is a one-element list.
declared_deps(metadata_dict) ==
  LET list(raw_deps) ==
        IF raw_deps.t = "str" THEN {raw_deps.v}
        ELSE IF raw_deps.t = "list" THEN {raw_deps.v[i] : i \in 1..Len(raw_deps.v)}
        ELSE {}
  IN IF "dependencies" \notin DOMAIN metadata_dict THEN {}
     ELSE list(metadata_dict["dependencies"])

_validate_dependencies(metadata, tree) ==
  LET report(missing) ==
        IF missing # {}
        THEN Returned(<<E("Missing dependencies in metadata.dependencies", Sorted(missing))>>)
        ELSE Returned(<<>>)
      cover(imports) ==
        IF imports = {} THEN Returned(<<>>)
        ELSE IF "metadata" \in DOMAIN metadata /\ metadata["metadata"].t # "map"
        THEN Raised("AttributeError")   \* metadata_dict.get on a str or a list
        ELSE report(imports \ declared_deps(
               IF "metadata" \in DOMAIN metadata THEN metadata["metadata"].v ELSE <<>>))
      scan(found) ==
        IF found.err # "" \/ found.scripts = {} THEN Returned(<<>>)
        ELSE cover(all_imports(tree, found.scripts))
  IN scan(find_scripts(tree))

\* validate with the check of scripts/ made before the manifest is parsed.
validate_scripts_first(entry, dir_name) ==
  LET extend(errors, deps) ==
        IF deps.raised # "" THEN deps ELSE Returned(errors \o deps.errors)
      fields(parsed, found) ==
        IF found.err # "" THEN Returned(<<E(found.err, <<>>)>>)
        ELSE IF parsed.err # "" THEN Returned(<<E(parsed.err, <<>>)>>)
        ELSE extend(validate_metadata(parsed.metadata, dir_name),
                    _validate_dependencies(parsed.metadata, entry.tree))
      manifest(skill_md) ==
        IF skill_md = None THEN Returned(<<E("Missing required file: SKILL.md", <<>>)>>)
        ELSE fields(parse_frontmatter(entry.tree[skill_md].text), find_scripts(entry.tree))
  IN IF entry.kind = "none" THEN Returned(<<E("Path does not exist", <<>>)>>)
     ELSE IF entry.kind # "dir" THEN Returned(<<E("Not a directory", <<>>)>>)
     ELSE manifest(find_skill_md(entry.tree))

\* validate(skill_dir) on the entry `entry` of the root, named dir_name.
validate(entry, dir_name) ==
  LET extend(errors, deps) ==
        IF deps.raised # "" THEN deps ELSE Returned(errors \o deps.errors)
      fields(parsed, found) ==
        IF parsed.err # "" THEN Returned(<<E(parsed.err, <<>>)>>)
        ELSE IF found.err # "" THEN Returned(<<E(found.err, <<>>)>>)
        ELSE extend(validate_metadata(parsed.metadata, dir_name),
                    _validate_dependencies(parsed.metadata, entry.tree))
      manifest(skill_md) ==
        IF skill_md = None THEN Returned(<<E("Missing required file: SKILL.md", <<>>)>>)
        ELSE fields(parse_frontmatter(entry.tree[skill_md].text), find_scripts(entry.tree))
  IN IF entry.kind = "none" THEN Returned(<<E("Path does not exist", <<>>)>>)
     ELSE IF entry.kind # "dir" THEN Returned(<<E("Not a directory", <<>>)>>)
     ELSE manifest(find_skill_md(entry.tree))

\* yaml.dump(metadata, default_flow_style=False, sort_keys=False) of the
\* header as strictyaml's .data hands it over: a collections.OrderedDict,
\* which PyYAML's Dumper writes as a tagged list of pairs
\* (!!python/object/apply:collections.OrderedDict), not as a block mapping.
\* The keys and the values are all in the document, which strictyaml
\* refuses to load (it allows no tag).
yaml_dump(metadata) == [t |-> "yaml", root |-> "tagged", map |-> metadata]

\* f"---\n{yaml_str}---\n{body}\n"
_rebuild_frontmatter(metadata, body) ==
  <<[t |-> "delim"], yaml_dump(metadata), [t |-> "delim"], [t |-> "ws"]>>
    \o body \o <<[t |-> "ws"]>>

\* existing_deps of fix_dependencies: the list, as declared.
existing_deps(metadata_dict) ==
  LET list(raw_deps) ==
        IF raw_deps.t = "str" THEN <<raw_deps.v>>
        ELSE IF raw_deps.t = "list" THEN raw_deps.v
        ELSE <<>>
  IN IF "dependencies" \notin DOMAIN metadata_dict THEN <<>>
     ELSE list(metadata_dict["dependencies"])

\* What fix_dependencies gives: the exception it raised or the names it
\* added, and the directory's files after the call.
Fixed(raised, added, tree) == [raised |-> raised, added |-> added, tree |-> tree]

fix_dependencies(entry) ==
  LET tree == entry.tree
      merge(metadata, existing, new_deps) ==
        IF new_deps = {} THEN metadata
        ELSE [metadata EXCEPT !["metadata"] =
                YMap(("dependencies" :>
                        YList(SortSeq(existing \o Sorted(new_deps),
                                      LAMBDA x, y : StrLess(x, y))))
                     @@ metadata["metadata"].v)]
      write(skill_md, metadata, body, existing, new_deps) ==
        Fixed("", Sorted(new_deps),
              [tree EXCEPT ![skill_md] =
                 File(_rebuild_frontmatter(merge(metadata, existing, new_deps), body))])
      deps(skill_md, metadata, body, imports) ==
        IF metadata["metadata"].t # "map"
        THEN Fixed("AttributeError", <<>>, tree)   \* .get on a str or a list
        ELSE write(skill_md, metadata, body, existing_deps(metadata["metadata"].v),
                   imports \ {existing_deps(metadata["metadata"].v)[i] :
                                i \in 1..Len(existing_deps(metadata["metadata"].v))})
      fix(skill_md, parsed, imports) ==
        IF parsed.err # "" THEN Fixed("ValueError", <<>>, tree)
        ELSE deps(skill_md,
                  IF "metadata" \in DOMAIN parsed.metadata THEN parsed.metadata
                  ELSE ("metadata" :> YMap(<<>>)) @@ parsed.metadata,
                  parsed.body, imports)
      manifest(skill_md, imports) ==
        IF skill_md = None THEN Fixed("", <<>>, tree)
        ELSE fix(skill_md, parse_frontmatter(tree[skill_md].text), imports)
      scan(imports) ==
        IF imports = {} THEN Fixed("", <<>>, tree)
        ELSE manifest(find_skill_md(tree), imports)
      scripts(found) ==
        IF found.err # "" \/ found.scripts = {} THEN Fixed("", <<>>, tree)
        ELSE scan(all_imports(tree, found.scripts))
  IN scripts(find_scripts(tree))


(***************************************************************************)
(* cst/utils.py                                                            *)
(***************************************************************************)
\* What an operation gives its caller.  A return: how it was obtained, the
\* value, and the path or command line it came from.  A raise: the
\* exception's type, its message, and what the message lists.
Ret(how, val, src) == [kind |-> "return", tag |-> how, val |-> val, src |-> src]
Raise(exc, msg, detail) == [kind |-> "raise", tag |-> exc, val |-> msg, src |-> detail]
NoResult == [kind |-> "none", tag |-> "", val |-> "", src |-> <<>>]

\* f"def {name}(" in content: a definition written "def name(", or any
\* other text that happens to hold these characters (a comment, a string).
HasDefText(content, name) ==
  \E i \in 1..Len(content) :
     \/ content[i].t = "def" /\ content[i].tight /\ content[i].name = name
     \/ content[i].t = "comment" /\ content[i].quotes = name

Max(S) == CHOOSE x \in S : \A y \in S : x >= y

\* FunctionFinder visits every FunctionDef of the tree, nested ones and
\* methods too, and keeps the last one whose name matches.
extract_function_info(source, function_name) ==
  LET found(hits) ==
        IF hits = {} THEN Raise("FunctionNotFoundError", "not found in source", function_name)
        ELSE Ret("signature", source[Max(hits)].info, <<>>)
  IN IF ~Parsable(source) THEN Raise("ParserSyntaxError", "", <<>>)
     ELSE found({i \in 1..Len(source) :
                   source[i].t = "def" /\ source[i].name = function_name})

\* The appended call  args={...}; __VALUE = f(**args)  run after the module
\* body: f is the last top-level binding of the name.
KeysOf(kv) == {kv[i][1] : i \in 1..Len(kv)}
ValueOf(kv, k) == kv[CHOOSE i \in 1..Len(kv) : kv[i][1] = k][2]

call_function(def, kv) ==
  IF KeysOf(kv) # def.params THEN Raise("TypeError", "arguments", <<>>)
  ELSE IF def.body = "add" THEN Ret("call", ValueOf(kv, "a") + ValueOf(kv, "b"), <<>>)
  ELSE Ret("call", 0, <<>>)

\* The statement update_code appends for execute_script:
\* args={...};__VALUE = function_name(**args)
Call(function_name, args) == [t |-> "call", name |-> function_name, args |-> args]

\* update_code.  A text is the sequence of its statements in source order;
\* the statements written inside a def, a class or an if follow it with
\* nested = TRUE, and a comment line leads the statement after it.
\* MainBlockFinder collects every if whose test is __name__ == "__main__",
\* at any depth; body.remove takes each of them out of the list of the
\* top-level statements and raises ValueError for one that is not in it.
\* The rebuilt Module has the statements only: the comments before the
\* first and after the last statement are the old module's own.
update_code(source, new_call) ==
  LET nested(i) == source[i].t \in {"def", "if"} /\ source[i].nested
      guards == {i \in 1..Len(source) : source[i].t = "if" /\ source[i].test = "main"}
      stmts == {i \in 1..Len(source) : source[i].t # "comment"}
      top(i) == IF \E j \in 1..i : j \in stmts /\ ~nested(j)
                THEN Max({j \in 1..i : j \in stmts /\ ~nested(j)}) ELSE i
      kept(i) ==
        IF i \in stmts THEN top(i) \notin guards
        ELSE /\ \E j \in stmts : j < i
             /\ \E k \in stmts : k > i
             /\ top(Min({k \in stmts : k > i})) \notin guards
      body[i \in 0..Len(source)] ==
        IF i = 0 THEN <<>>
        ELSE IF kept(i) THEN Append(body[i - 1], source[i]) ELSE body[i - 1]
  IN IF ~Parsable(source) THEN Raise("ParserSyntaxError", "", <<>>)
     ELSE IF guards = {} THEN Ret("code", source \o <<new_call>>, <<>>)
     ELSE IF \E i \in guards : nested(i)
     THEN Raise("ValueError", "list.remove(x): x not in list", <<>>)
     ELSE Ret("code", body[Len(source)] \o <<new_call>>, <<>>)

\* execute_script: exec of the rewritten text in a fresh context.  The
\* appended statement first binds the global name args to the dict that
\* str(args) displays, then calls what function_name is bound to:
\* the last top-level def of that name.  __name__ is "builtins" there, so
\* the body of an if that compares it to '__main__' is not run.
execute_script(content, function_name, args) ==
  LET call(output, hits) ==
        IF function_name = <<"args">>
        THEN Raise("TypeError", "'dict' object is not callable", <<>>)
        ELSE IF hits = {} THEN Raise("NameError", "is not defined", function_name)
        ELSE call_function(output[Max(hits)], args)
      exec(output) ==
        call(output, {i \in 1..Len(output) :
                        /\ output[i].t = "def" /\ ~output[i].nested
                        /\ output[i].name = function_name})
      run(code) == IF code.kind = "raise" THEN code ELSE exec(code.val)
  IN run(update_code(content, Call(function_name, args)))

\* The number of parameters execute_script declares.
ExecuteScriptParams == 3

\* A call execute_script_impl(*actuals): Python binds the actuals to the
\* parameters before it runs the body.
execute_script_impl(actuals) ==
  IF Len(actuals) # ExecuteScriptParams
  THEN Raise("TypeError", "takes 3 positional arguments but 4 were given", <<>>)
  ELSE execute_script(actuals[1], actuals[2], actuals[3])

\* str(x) of a returned value.
PyStr(r) == IF r.kind = "return" THEN [r EXCEPT !.val = <<ToString(r.val)>>] ELSE r

(***************************************************************************)
(* platformdirs_utils.py                                                   *)
(***************************************************************************)
\* The process: os.environ (a mapping from the names of the variables that
\* are set to their values) and, for every with-block of
\* platformdir_env_override that is open, its old_values, innermost last.
NoEnviron == [k \in {} |-> <<>>]
NoOverride(environ) == [environ |-> environ, old_values |-> <<>>]

\* _get_platformdir_env_overrides (sys.platform is not "win32")
_get_platformdir_env_overrides(data_dir) == [k \in {"XDG_DATA_HOME"} |-> data_dir]

\* platformdir_env_override up to its yield: old_values[key] is
\* os.environ.get(key), written <<value>>, or <<>> for the None of a
\* variable that is not set (its value may be the empty str).
enter_env_override(p, data_dir) ==
  LET overrides == _get_platformdir_env_overrides(data_dir) IN
  [environ |-> [k \in DOMAIN p.environ \cup DOMAIN overrides |->
                  IF k \in DOMAIN overrides THEN overrides[k] ELSE p.environ[k]],
   old_values |-> Append(p.old_values,
                         [k \in DOMAIN overrides |->
                            IF k \in DOMAIN p.environ THEN <<p.environ[k]>> ELSE <<>>])]

\* An exit that puts the old value back and never deletes the variable.
exit_env_override_no_delete(p) ==
  LET old == p.old_values[Len(p.old_values)] IN
  [environ |-> [k \in DOMAIN p.environ |->
                  IF k \in DOMAIN old /\ old[k] # <<>> THEN old[k][1] ELSE p.environ[k]],
   old_values |-> SubSeq(p.old_values, 1, Len(p.old_values) - 1)]

\* The finally clause, run when the with-block is left by a return or by
\* an exception.
exit_env_override(p) ==
  LET old == p.old_values[Len(p.old_values)] IN
  [environ |-> [k \in {k \in DOMAIN p.environ : k \in DOMAIN old => old[k] # <<>>} |->
                  IF k \in DOMAIN old THEN old[k][1] ELSE p.environ[k]],
   old_values |-> SubSeq(p.old_values, 1, Len(p.old_values) - 1)]

(***************************************************************************)
(* skill_registry.py                                                       *)
(***************************************************************************)
Skill(name, description, directory, content) ==
  [name |-> name, description |-> description, directory |-> directory, content |-> content]

\* The include/exclude filter of _load_skills: TRUE when the name is kept.
passes_filter(reg, skill_name) ==
  IF reg.include.given THEN skill_name \in reg.include.names
  ELSE skill_name \notin reg.exclude

\* A loop body that keeps every directory whose manifest parses and names
\* the skill, whatever validate says of it.
scan_one_unvalidated(reg, root, skill_dir, acc) ==
  LET entry == root[skill_dir]
      keep(parsed) ==
        IF parsed.err # "" \/ "name" \notin DOMAIN parsed.metadata THEN acc
        ELSE IF parsed.metadata["name"].t # "str" THEN acc
        ELSE IF ~passes_filter(reg, parsed.metadata["name"].v) THEN acc
        ELSE [acc EXCEPT !.skills = Append(@,
                Skill(parsed.metadata["name"].v, <<>>, skill_dir, parsed.body))]
  IN IF entry.kind # "dir" \/ find_skill_md(entry.tree) = None THEN acc
     ELSE keep(parse_frontmatter(entry.tree[find_skill_md(entry.tree)].text))

\* The body of the loop of _load_skills for one directory of the root: acc
\* holds skills, validation_issues and the exception that ended the scan.
\* root holds the directories of the skill root and, under the path
\* context.data_dir, the session's data directory when there is one.  The
\* manifest found in <data_dir>/<skill name>/ is read and joined to the
\* text of the skill's manifest in the local variable content, which is
\* not read again: the Skill is built with the body of the skill's own
\* manifest.
scan_one(reg, root, skill_dir, acc) ==
  LET entry == root[skill_dir]
      data == IF reg.data_dir \in DOMAIN root /\ root[reg.data_dir].kind = "dir"
              THEN root[reg.data_dir].tree ELSE <<>>
      context_skill_md(skill_name) ==
        IF exists(data, skill_name \o <<"/", "SKILL", ".", "md">>)
        THEN skill_name \o <<"/", "SKILL", ".", "md">>
        ELSE IF exists(data, skill_name \o <<"/", "skill", ".", "md">>)
        THEN skill_name \o <<"/", "skill", ".", "md">>
        ELSE None
      content(text, fragment) ==
        strip_pieces(text) \o <<[t |-> "ws"]>> \o data[fragment].text
      append(parsed, fragment) ==
        IF fragment # None /\ data[fragment].dir
        THEN [acc EXCEPT !.raised = "IsADirectoryError"]
        ELSE [acc EXCEPT !.skills = Append(@,
                Skill(parsed.metadata["name"].v, parsed.metadata["description"].v,
                      skill_dir, parsed.body))]
      keep(parsed) ==
        IF ~passes_filter(reg, parsed.metadata["name"].v) THEN acc
        ELSE append(parsed, context_skill_md(parsed.metadata["name"].v))
      judge(v) ==
        IF v.raised # "" THEN [acc EXCEPT !.raised = v.raised]
        ELSE IF Len(v.errors) = 0
        THEN keep(parse_frontmatter(entry.tree[find_skill_md(entry.tree)].text))
        ELSE [acc EXCEPT !.issues = @ \o v.errors]
  IN IF entry.kind # "dir" THEN acc ELSE judge(validate(entry, skill_dir))

\* The loop, over the directories in the order glob("*") yields them.
RECURSIVE scan_dirs(_, _, _, _)
scan_dirs(reg, root, order, acc) ==
  IF order = <<>> \/ acc.raised # "" THEN acc
  ELSE scan_dirs(reg, root, Tail(order), scan_one(reg, root, Head(order), acc))

\* _load_skills: the catalog, or the exception raised in place of it.
_load_skills(reg, root, order) ==
  LET finish(acc) ==
        IF acc.raised # "" THEN Raise(acc.raised, "", <<>>)
        ELSE IF acc.skills = <<>>
        THEN Raise("Exception", "No skills found in the directory", acc.issues)
        ELSE Ret("catalog", acc.skills, <<>>)
  IN finish(scan_dirs(reg, root, order, [raised |-> "", skills |-> <<>>, issues |-> <<>>]))

\* A skills property that loads once and serves self._skills afterwards.
skills_memo(reg, root, order) ==
  LET keep(l) ==
        [loaded |-> l,
         field |-> IF l.kind = "return" THEN [set |-> TRUE, v |-> l] ELSE reg._skills]
  IN IF reg._skills.set THEN [loaded |-> reg._skills.v, field |-> reg._skills]
     ELSE keep(_load_skills(reg, root, order))

\* The skills property: reloads on every read and leaves self._skills as
\* it is.  loaded is what the read gives, field the value of self._skills
\* after it.
skills(reg, root, order) ==
  [loaded |-> _load_skills(reg, root, order), field |-> reg._skills]

\* get_skill_by_name over the catalog just read: the first skill of that
\* name, as a list of one or none.
get_skill_by_name(got, name) ==
  LET first(hits) == IF hits = {} THEN <<>> ELSE <<got.val[Min(hits)]>>
  IN IF got.kind = "raise" THEN got
     ELSE Ret("skill", first({i \in 1..Len(got.val) : got.val[i].name = name}), <<>>)

get_skill_names(got) ==
  IF got.kind = "raise" THEN got
  ELSE Ret("names", [i \in 1..Len(got.val) |-> got.val[i].name], <<>>)

\* difflib.SequenceMatcher(a, b): the number of matched characters, the
\* longest common block (the earliest in a, then the earliest in b) plus the
\* matches on its left and on its right.
RECURSIVE matching_chars(_, _)
matching_chars(a, b) ==
  LET around(t) ==
        t[3] + matching_chars(SubSeq(a, 1, t[1] - 1), SubSeq(b, 1, t[2] - 1))
             + matching_chars(SubSeq(a, t[1] + t[3], Len(a)), SubSeq(b, t[2] + t[3], Len(b)))
      longest(blocks) ==
        IF blocks = {} THEN 0
        ELSE around(CHOOSE t \in blocks : \A u \in blocks :
                      \/ t[3] > u[3]
                      \/ t[3] = u[3] /\ t[1] < u[1]
                      \/ t[3] = u[3] /\ t[1] = u[1] /\ t[2] <= u[2])
  IN longest({t \in (1..Len(a)) \X (1..Len(b)) \X (1..Len(a)) :
                /\ t[1] + t[3] - 1 <= Len(a) /\ t[2] + t[3] - 1 <= Len(b)
                /\ SubSeq(a, t[1], t[1] + t[3] - 1) = SubSeq(b, t[2], t[2] + t[3] - 1)})

\* n and ten times the cutoff of get_close_matches(name, names, n=3, cutoff=0.6).
CloseMatchesN == 3
CloseMatchesCutoffTenths == 6

\* heapq.nlargest(n, result): the positions of the n largest (score, x), the
\* score 2 * M / T compared as a fraction.
RECURSIVE nlargest(_, _, _, _)
nlargest(n, idx, word, possibilities) ==
  LET m(i) == matching_chars(possibilities[i], word)
      t(i) == Len(possibilities[i]) + Len(word)
      above(i, j) ==
        \/ m(i) * t(j) > m(j) * t(i)
        \/ m(i) * t(j) = m(j) * t(i) /\ ~StrLess(possibilities[i], possibilities[j])
      take(i) == <<possibilities[i]>> \o nlargest(n - 1, idx \ {i}, word, possibilities)
  IN IF n = 0 \/ idx = {} THEN <<>>
     ELSE take(CHOOSE i \in idx : \A j \in idx : above(i, j))

\* difflib.get_close_matches(word, possibilities, n=3, cutoff=0.6)
get_close_matches(word, possibilities) ==
  nlargest(CloseMatchesN,
           {i \in 1..Len(possibilities) :
              10 * 2 * matching_chars(possibilities[i], word)
                >= CloseMatchesCutoffTenths * (Len(possibilities[i]) + Len(word))},
           word, possibilities)

\* _raise_skill_not_found: find_similar_skill_names reads the catalog
\* again; the message lists the similar names when there are any.
_raise_skill_not_found(names, context, skill_name) ==
  IF names.kind = "raise" THEN names
  ELSE LET hint(similar) ==
             IF similar # <<>> THEN <<"Did you mean", similar>> ELSE <<>>
       IN Raise("Exception", "Could not find",
                <<context, skill_name>> \o hint(get_close_matches(skill_name, names.val)))

\* load_skill, given what the lookup found and what a second read of the
\* catalog (for the suggestions of the not-found error) gives.
load_skill(skill, again, skill_name) ==
  IF skill.kind = "raise" THEN skill
  ELSE IF skill.val = <<>>
  THEN _raise_skill_not_found(get_skill_names(again), <<"load_skill">>, skill_name)
  ELSE Ret("content", skill.val[1].content, skill.val[1].directory)

\* Path.read_text of a node of the skill directory.
read_text(tree, p, how) ==
  IF tree[p].dir THEN Raise("IsADirectoryError", "Is a directory", p)
  ELSE Ret(how, tree[p].text, p)

\* subprocess.run(cmd, capture_output=True).stdout: the output of the
\* command line cmd, whose first word is the path of the script.
subprocess_run(tree, p, cmd) ==
  IF tree[p].dir THEN Raise("PermissionError", "Permission denied", p)
  ELSE Ret("stdout", cmd, p)

\* One word "--key=value" for every item of args.
flag_words_joined(kv) ==
  [j \in 1..Len(kv) |-> <<"--", kv[j][1], "=", ToString(kv[j][2])>>]

\* cmd.append(f"--{key}"); cmd.append(f"{val}") for every item of args.
flag_words(kv) ==
  [j \in 1..(2 * Len(kv)) |->
     IF j % 2 = 1 THEN <<"--", kv[(j + 1) \div 2][1]>>
     ELSE <<ToString(kv[j \div 2][2])>>]

\* _find_exact_resource: list(glob(name)) + list(glob("*/" + name)), of
\* which pop() takes the last.  The order of the one-level-below matches is
\* the directory order, which the platform decides: any of them may be last.
exact_file_match(tree, resource_name) ==
  LET last(top, below) == IF below # {} THEN below ELSE top
  IN last({p \in DOMAIN tree : p = resource_name},
          {p \in DOMAIN tree :
             \E c \in DOMAIN tree :
                /\ ~Contains(c, "/") /\ tree[c].dir
                /\ p = c \o <<"/">> \o resource_name})

\* A name with a path separator in it.
has_separator(resource_name) == Contains(resource_name, "/")

\* "." in resource_name
has_dot(resource_name) == Contains(resource_name, ".")

\* The scripts of scripts/ whose text holds "def <name>(".
scripts_with_def(tree, name) ==
  IF ~exists(tree, <<"scripts">>) THEN {}
  ELSE {p \in DOMAIN tree : IsScriptPath(p) /\ ~tree[p].dir /\ HasDefText(tree[p].text, name)}

\* read_skill_resource after the skill was found: every result the call
\* can give on the skill directory tree (one per directory order).
resolve_resource(tree, data_dir, skill_name, resource_name, args) ==
  LET scan(hits) ==
        IF hits # {}
        THEN {IF ~args.given
              THEN PyStr(extract_function_info(tree[p].text, resource_name))
              ELSE execute_script_impl(<<tree[p].text, resource_name, args.kv,
                                         data_dir \o <<"/">> \o skill_name>>)
              : p \in hits}
        ELSE {Raise("Exception", "Unable to find resource", <<"exhausted">>)}
      script(script_path) ==
        IF exists(tree, script_path)
        THEN IF ~args.given THEN {read_text(tree, script_path, "script_text")}
             ELSE {subprocess_run(tree, script_path, <<script_path>> \o flag_words(args.kv))}
        ELSE scan(scripts_with_def(tree, resource_name))
      exact(matches) ==
        IF matches # {} THEN {read_text(tree, p, "file_text") : p \in matches}
        ELSE IF has_dot(resource_name)
        THEN {Raise("Exception", "Unable to find resource", <<"immediate">>)}
        ELSE script(<<"scripts", "/">> \o resource_name \o <<".", "py">>)
  IN IF resource_name = <<>> THEN {Raise("ValueError", "Unacceptable pattern", <<>>)}
     ELSE exact(exact_file_match(tree, resource_name))

\* run_skill after the skill was found.
resolve_run(tree, data_dir, skill_name, function_or_script_name, args) ==
  LET scan(hits) ==
        IF hits # {}
        THEN {PyStr(execute_script_impl(<<tree[p].text, function_or_script_name, args.kv,
                                          data_dir \o <<"/">> \o skill_name>>))
              : p \in hits}
        ELSE {Raise("Exception", "Failed to execute", <<>>)}
      script(script_path) ==
        IF exists(tree, script_path) THEN {subprocess_run(tree, script_path, <<script_path>>)}
        ELSE scan(scripts_with_def(tree, function_or_script_name))
  IN script(IF function_or_script_name = <<>> THEN <<"scripts">>
            ELSE <<"scripts", "/">> \o function_or_script_name)

\* The tree a Skill's directory names now: empty when it is gone.
tree_of(root, directory) ==
  IF root[directory].kind = "dir" THEN root[directory].tree ELSE <<>>

(***************************************************************************)
(* skills/memory/scripts/memory.py                                         *)
(***************************************************************************)
\* A text of the memory skill is the list of its lines, text.split("\n"):
\* the empty text is one blank line, and "\n".join gives the list back
\* (no line of the model holds a line break).  The lines are entries
\* "[group] text", the warning WARNING_MESSAGE, the heading
\* SKILL_MD_MEMORIES, blank lines and plain lines without a group.
MEMORY_WINDOW == 50
WARNING_MESSAGE == [t |-> "warning"]

\* _compact.  The filter drops the lines that start with "_coment:";
\* WARNING_MESSAGE starts with "_comment:" and stays.
_compact(items, window) ==
  LET no_warning == SelectSeq(items, LAMBDA x : x.t # "coment") IN
  IF Len(items) < window THEN items
  ELSE <<WARNING_MESSAGE>> \o SubSeq(no_warning, 1, Min({window, Len(no_warning)}))

\* _update_skill: SKILL.md is written (and created) as
\* "## Memories\n\n" + the text of memory.txt.
_update_skill(tree) ==
  (<<"SKILL", ".", "md">> :>
     File(<<[t |-> "heading"], [t |-> "blank"]>> \o tree[<<"memory", ".", "txt">>].text))
  @@ tree

\* add_memory(text, group): _add_event on memory.txt, then _update_skill.
\* No group (None) is DEFAULT_GROUP.
add_memory(tree, text, group) ==
  LET target == <<"memory", ".", "txt">>
      item == <<[t |-> "entry", group |-> IF group = <<>> THEN <<"notes">> ELSE group,
                 text |-> text]>> \o tree[target].text
  IN _update_skill([tree EXCEPT ![target] = File(_compact(item, MEMORY_WINDOW))])

\* _get_hash: "hash_info: " and the first two hexadecimal digits of the
\* file's md5, one of HashValues values.  The digest is modelled by a
\* checksum of the lines: equal texts have equal digests, different texts
\* may have.
HashValues == 256

_get_hash(text) ==
  LET weight(line) ==
        CASE line.t = "entry" ->
               3 + (IF line.group = <<"user">> THEN 5 ELSE 0)
                 + (IF line.text = "new" THEN 11 ELSE IF line.text = "old" THEN 7 ELSE 13)
          [] line.t = "warning" -> 17
          [] line.t = "blank" -> 1
          [] OTHER -> 19
      sum[i \in 0..Len(text)] == IF i = 0 THEN 0 ELSE sum[i - 1] + i * weight(text[i])
  IN <<"hash_info:", " ", ToString(sum[Len(text)] % HashValues)>>

\* What consolidate_memory gives: the files after it and what it returns.
\* A consolidation that writes whatever hash it is given.
consolidate_memory_unchecked(tree, memories, hash) ==
  [tree |-> _update_skill([tree EXCEPT ![<<"memory", ".", "txt">>] =
              File([i \in 1..Len(memories) |->
                      IF memories[i].t = "entry" THEN memories[i]
                      ELSE [t |-> "entry", group |-> <<"notes">>,
                            text |-> IF memories[i].t = "plain" THEN memories[i].text
                                     ELSE memories[i].t]])]),
   returned |-> ""]

\* consolidate_memory(memories, hash): the word after "hash_info:" is
\* compared with hash.strip(); every item that does not start with "[" is
\* written as "[notes] " + item.
consolidate_memory(tree, memories, hash) ==
  IF <<_get_hash(tree[<<"memory", ".", "txt">>].text)[3]>> # Strip(hash)
  THEN [tree |-> tree, returned |-> "Hash do not match! No consolidation occurred. Check the hash by running view_memory"]
  ELSE [tree |-> _update_skill([tree EXCEPT ![<<"memory", ".", "txt">>] =
                   File([i \in 1..Len(memories) |->
                           IF memories[i].t = "entry" THEN memories[i]
                           ELSE [t |-> "entry", group |-> <<"notes">>,
                                 text |-> IF memories[i].t = "plain" THEN memories[i].text
                                          ELSE memories[i].t]])]),
        returned |-> ""]

(***************************************************************************)
(* The skill directories of the model (tests/conftest.py's fixtures and    *)
(* variations of them) and the inputs of the calls                         *)
(***************************************************************************)
Delim == [t |-> "delim"]
Ws == [t |-> "ws"]
Txt(s) == [t |-> "txt", s |-> s]
Yaml(m) == [t |-> "yaml", root |-> "map", map |-> m]

\* ---\n<header>\n---\n\n<body>\n
Manifest(header, body) == <<Delim, header, Delim, Ws, Txt(body), Ws>>

Header(name) ==
  Yaml([name |-> YStr(name), description |-> YStr(<<"d">>)])

Def(name, params, body, nested, tight) ==
  [t |-> "def", name |-> name, params |-> params, body |-> body,
   nested |-> nested, tight |-> tight,
   info |-> [name |-> name, parameters |-> params, return_type |-> body]]

\* import a.b / from a.b import x; level counts the leading dots of a
\* relative "from" (from . import a: level 1 and no module).
Import(form, module) == [t |-> "import", form |-> form, module |-> module, level |-> 0]
ImportFrom(level, module) ==
  [t |-> "import", form |-> "from", module |-> module, level |-> level]

\* conftest.script_content, and a comment that quotes a definition.
UtilsPy ==
  <<Def(<<"greet">>, {"name"}, "greet", FALSE, TRUE),
    Def(<<"add">>, {"a", "b"}, "add", FALSE, TRUE),
    [t |-> "comment", quotes |-> <<"ghost">>]>>

RunPy == <<Import("import", <<"argparse">>), [t |-> "stmt"]>>

NetPy == <<Import("import", <<"requests">>), Def(<<"fetch">>, {}, "fetch", FALSE, TRUE)>>

SkillMd == <<"SKILL", ".", "md">>

PlainTree(name, notes) ==
  (SkillMd :> File(Manifest(Header(name), "body"))) @@ (<<"notes">> :> File(<<Txt(notes)>>))

ScriptsTree ==
  (<<"scripts">> :> Dir)
  @@ (<<"scripts", "/", "utils", ".", "py">> :> File(UtilsPy))
  @@ (<<"scripts", "/", "run", ".", "py">> :> File(RunPy))
  @@ (<<"scripts", "/", "v", ".", "1", ".", "py">> :> File(RunPy))
  @@ (<<"data">> :> File(<<Txt("rows")>>))
  @@ (<<"scripts", "/", "data">> :> Dir)

NoEntry == [kind |-> "none", tree |-> <<>>]
PlainFile == [kind |-> "file", tree |-> <<>>]
SkillDir(tree) == [kind |-> "dir", tree |-> tree]

\* Valid skills.
SkillPlain(name, notes) == SkillDir(PlainTree(name, notes))
SkillRich(name) == SkillDir(PlainTree(name, "n1") @@ ScriptsTree)

\* Skills that validation rejects: no manifest, a field error, an empty
\* scripts/, an undeclared import, a name that is a list.
SkillNoMd == SkillDir(<<"notes">> :> File(<<Txt("n1")>>))
SkillBadName == SkillDir(SkillMd :> File(Manifest(Header(<<"A">>), "body")))
SkillEmptyScripts(name) == SkillDir(PlainTree(name, "n1") @@ (<<"scripts">> :> Dir))
SkillUndeclared(name) ==
  SkillDir(PlainTree(name, "n1") @@ (<<"scripts">> :> Dir)
           @@ (<<"scripts", "/", "net", ".", "py">> :> File(NetPy)))
SkillListName ==
  SkillDir(SkillMd :> File(Manifest(
    Yaml([name |-> YList(<<<<"a">>>>), description |-> YStr(<<"d">>)]), "body")))

\* "metadata: notes" in the header (a str, not a mapping) beside a script
\* that imports a third-party module.
SkillScalarMetadata(name) ==
  SkillDir((SkillMd :> File(Manifest(
              Yaml([name |-> YStr(name), description |-> YStr(<<"d">>),
                    metadata |-> YStr(<<"notes">>)]), "body")))
           @@ (<<"scripts">> :> Dir)
           @@ (<<"scripts", "/", "net", ".", "py">> :> File(NetPy)))

DirA == <<"a">>
DirB == <<"b">>
DirNames == {DirA, DirB}

Entries(d) ==
  IF d = DirA
  THEN {NoEntry, PlainFile, SkillPlain(d, "n1"), SkillPlain(d, "n2"), SkillRich(d),
        SkillNoMd, SkillBadName, SkillEmptyScripts(d), SkillUndeclared(d),
        SkillListName, SkillScalarMetadata(d)}
  ELSE {NoEntry, SkillPlain(d, "n1"), SkillNoMd, SkillScalarMetadata(d)}

\* The orders in which glob("*") may yield the directories of the root.
Orders == {<<DirA, DirB>>, <<DirB, DirA>>}

NoArgs == [given |-> FALSE, kv |-> <<>>]
Args(kv) == [given |-> TRUE, kv |-> kv]
ArgsInputs == {NoArgs, Args(<<>>), Args(<<<<"a", 2>>, <<"b", 3>>>>)}

SkillNames == {DirA, DirB, <<"z">>}

ResourceNames ==
  {<<>>, SkillMd, <<"notes">>, <<"data">>, <<"scripts">>, <<"run">>, <<"v", ".", "1">>,
   <<"add">>, <<"ghost">>, <<"nope">>, <<"nope", ".", "txt">>, <<"sub", "/", "nope">>,
   <<"run", ".", "py">>, <<"scripts", "/", "run", ".", "py">>}

Registries ==
  {[_skills |-> [set |-> FALSE, v |-> NoResult], data_dir |-> <<"session">>,
    include |-> i, exclude |-> e] :
     <<i, e>> \in {<<[given |-> FALSE, names |-> {}], {}>>,
                   <<[given |-> FALSE, names |-> {}], {DirB}>>,
                   <<[given |-> TRUE, names |-> {DirA}], {DirA}>>}}

(***************************************************************************)
(* The state machine: the files under the registry root change at any      *)
(* time (skills rewrite their own files, other processes add and remove    *)
(* directories); a caller makes one registry call after the other.         *)
(* read_skill_resource and run_skill look the skill up (a scan of the      *)
(* root) and then work on its directory: the files may change in between.  *)
(***************************************************************************)
Idle == [phase |-> "idle", call |-> "", skill_name |-> <<>>, name |-> <<>>,
         args |-> NoArgs, skill |-> <<>>]

Init ==
  /\ disk \in [DirNames -> UNION {Entries(d) : d \in DirNames}]
  /\ \A d \in DirNames : disk[d] \in Entries(d)
  /\ registry \in Registries
  /\ op = Idle
  /\ result = NoResult
  /\ process = NoOverride(NoEnviron)

CanChange == op.phase \in {"idle", "scanned"}

AddSkillDir(d, e) ==
  /\ CanChange
  /\ disk[d].kind = "none" /\ e.kind # "none"
  /\ disk' = [disk EXCEPT ![d] = e]
  /\ UNCHANGED <<registry, op, result>>
  /\ UNCHANGED process

RemoveSkillDir(d) ==
  /\ CanChange
  /\ disk[d].kind # "none"
  /\ disk' = [disk EXCEPT ![d] = NoEntry]
  /\ UNCHANGED <<registry, op, result>>
  /\ UNCHANGED process

\* A manifest, a script or a resource file of the directory is rewritten.
RewriteSkillDir(d, e) ==
  /\ CanChange
  /\ disk[d].kind # "none" /\ e.kind # "none" /\ e # disk[d]
  /\ disk' = [disk EXCEPT ![d] = e]
  /\ UNCHANGED <<registry, op, result>>
  /\ UNCHANGED process

Done(call, skill_name, name, args) ==
  [phase |-> "done", call |-> call, skill_name |-> skill_name, name |-> name,
   args |-> args, skill |-> <<>>]

\* registry.skills
ReadSkills(order) ==
  /\ op.phase = "idle"
  /\ LET read(s) ==
           /\ result' = s.loaded
           /\ registry' = [registry EXCEPT !._skills = s.field]
     IN read(skills(registry, disk, order))
  /\ op' = Done("skills", <<>>, <<>>, NoArgs)
  /\ UNCHANGED disk
  /\ UNCHANGED process

GetSkillByName(order, name) ==
  /\ op.phase = "idle"
  /\ LET read(s) ==
           /\ result' = get_skill_by_name(s.loaded, name)
           /\ registry' = [registry EXCEPT !._skills = s.field]
     IN read(skills(registry, disk, order))
  /\ op' = Done("get_skill_by_name", name, <<>>, NoArgs)
  /\ UNCHANGED disk
  /\ UNCHANGED process

\* Two reads of the catalog: the second one, for the suggestions, is made
\* with the field as the first read left it.
LoadSkill(order, skill_name) ==
  /\ op.phase = "idle"
  /\ LET read(s1, s2) ==
           /\ result' = load_skill(get_skill_by_name(s1.loaded, skill_name), s2.loaded,
                                   skill_name)
           /\ registry' = [registry EXCEPT !._skills = s1.field]
     IN read(skills(registry, disk, order), skills(registry, disk, order))
  /\ op' = Done("load_skill", skill_name, <<>>, NoArgs)
  /\ UNCHANGED disk
  /\ UNCHANGED process

\* The first half of read_skill_resource and of run_skill: the lookup, and
\* the not-found error when it gives None.
Lookup(call, order, skill_name, name, args) ==
  /\ op.phase = "idle"
  /\ LET find(s, skill) ==
           /\ registry' = [registry EXCEPT !._skills = s.field]
           /\ IF skill.kind = "raise"
              THEN result' = skill /\ op' = Done(call, skill_name, name, args)
              ELSE IF skill.val = <<>>
              THEN /\ result' = _raise_skill_not_found(get_skill_names(s.loaded),
                                                       <<call>>, skill_name)
                   /\ op' = Done(call, skill_name, name, args)
              ELSE /\ result' = NoResult
                   /\ op' = [phase |-> "scanned", call |-> call, skill_name |-> skill_name,
                             name |-> name, args |-> args, skill |-> skill.val]
         read(s) == find(s, get_skill_by_name(s.loaded, skill_name))
     IN read(skills(registry, disk, order))
  /\ UNCHANGED disk
  /\ UNCHANGED process

ReadSkillResourceLookup(order, skill_name, resource_name, args) ==
  Lookup("read_skill_resource", order, skill_name, resource_name, args)

ReadSkillResourceResolve ==
  /\ op.phase = "scanned" /\ op.call = "read_skill_resource"
  /\ result' \in resolve_resource(tree_of(disk, op.skill[1].directory), registry.data_dir,
                                  op.skill_name, op.name, op.args)
  /\ op' = [op EXCEPT !.phase = "done"]
  /\ UNCHANGED <<disk, registry>>
  /\ UNCHANGED process

RunSkillLookup(order, skill_name, function_or_script_name, args) ==
  Lookup("run_skill", order, skill_name, function_or_script_name, args)

RunSkillResolve ==
  /\ op.phase = "scanned" /\ op.call = "run_skill"
  /\ result' \in resolve_run(tree_of(disk, op.skill[1].directory), registry.data_dir,
                             op.skill_name, op.name, op.args)
  /\ op' = [op EXCEPT !.phase = "done"]
  /\ UNCHANGED <<disk, registry>>
  /\ UNCHANGED process

\* The caller has the result and makes its next call.
Return ==
  /\ op.phase = "done"
  /\ op' = Idle /\ result' = NoResult
  /\ UNCHANGED <<disk, registry>>
  /\ UNCHANGED process

Next ==
  \/ \E d \in DirNames : \E e \in Entries(d) : AddSkillDir(d, e)
  \/ \E d \in DirNames : RemoveSkillDir(d)
  \/ \E d \in DirNames : \E e \in Entries(d) : RewriteSkillDir(d, e)
  \/ \E order \in Orders : ReadSkills(order)
  \/ \E order \in Orders : \E n \in SkillNames : GetSkillByName(order, n)
  \/ \E order \in Orders : \E n \in SkillNames : LoadSkill(order, n)
  \/ \E order \in Orders : \E n \in SkillNames : \E r \in ResourceNames : \E a \in ArgsInputs :
        ReadSkillResourceLookup(order, n, r, a)
  \/ ReadSkillResourceResolve
  \/ \E order \in Orders : \E n \in SkillNames : \E r \in ResourceNames : \E a \in ArgsInputs :
        RunSkillLookup(order, n, r, a)
  \/ RunSkillResolve
  \/ Return

Spec == Init /\ [][Next]_vars

(***************************************************************************)
(* The validator at work on one root: validate and fix_dependencies are    *)
(* called on directories of every shape, _validate_name and                *)
(* extract_imports on names and scripts, and the registry reads the root   *)
(* in between (the "check" command and a registry on the same root).       *)
(***************************************************************************)
\* Scripts: the imports of tests/test_validator.py ("std"), relative
\* imports, a third-party package that is itself called "relative", dotted
\* modules, and a text that is no Python.
Script(which) ==
  CASE which = "std" ->
         <<Import("import", <<"os">>), Import("import", <<"sys">>),
           Import("import", <<"json">>), Import("import", <<"requests">>)>>
    [] which = "rel" ->
         <<ImportFrom(1, <<>>), ImportFrom(1, <<"pkg">>), ImportFrom(2, <<>>)>>
    [] which = "relative" -> <<ImportFrom(0, <<"relative", ".", "api">>)>>
    [] which = "dotted" ->
         <<Import("import", <<"numpy", ".", "linalg">>), ImportFrom(0, <<"yaml">>),
           ImportFrom(0, <<"pathlib">>)>>
    [] which = "bad" -> <<[t |-> "bad"]>>

ScriptInputs ==
  {Script(w) : w \in {"std", "rel", "relative", "dotted", "bad"}} \cup {RunPy, NetPy, <<>>}

\* scripts/ with two scripts.
TwoScripts(net, more) ==
  (<<"scripts">> :> Dir)
  @@ (<<"scripts", "/", "net", ".", "py">> :> File(net))
  @@ (<<"scripts", "/", "more", ".", "py">> :> File(more))

ToolDirNames == {DirA, DirB, <<"a", "b", "c">>, <<"a", "b", "b">>, <<"fw_a">>}

\* The directory "a" in every shape (no manifest, no front matter, an empty
\* scripts/, a header that breaks several rules at once, every way of
\* declaring the dependencies beside every set of scripts); the other
\* directories are absent or plain skills, "fw_a" also one that declares
\* the name "a".
ToolEntries(d) ==
  LET script_sets ==
        {TwoScripts(NetPy, Script("dotted")), TwoScripts(RunPy, RunPy),
         TwoScripts(Script("std"), Script("rel"))}
      deps(raw_deps) == YMap([dependencies |-> raw_deps])
      metadata_inputs ==
        {deps(YStr(<<"requests">>)), deps(YList(<<<<"requests">>>>)),
         deps(YList(<<<<"yaml">>, <<"requests">>, <<"numpy">>>>)),
         YMap([author |-> YStr(<<"me">>)]), YStr(<<"notes">>)}
      header_with(metadata) ==
        Yaml([name |-> YStr(d), description |-> YStr(<<"d">>), metadata |-> metadata])
      \* an unknown key, a name in upper case with hyphens at both ends, two
      \* in a row and a character that is no letter, an empty description,
      \* a compatibility that is a list
      many_errors ==
        [name |-> YStr(<<"-", "A", "-", "-", "!", "-">>), description |-> YStr(<<>>),
         compatibility |-> YList(<<>>), author |-> YStr(<<"me">>)]
      skill_with(header, files) ==
        SkillDir((SkillMd :> File(Manifest(header, "body"))) @@ files)
      no_files == <<"notes">> :> File(<<Txt("n1")>>)
      no_scripts == <<"scripts">> :> Dir
      no_frontmatter(files) == SkillDir((SkillMd :> File(<<Txt("body")>>)) @@ files)
  IN IF d = DirA
     THEN {NoEntry, PlainFile, SkillNoMd, SkillDir(no_scripts),
           no_frontmatter(no_files), no_frontmatter(no_scripts),
           no_frontmatter(TwoScripts(NetPy, Script("dotted"))),
           SkillPlain(d, "n1"), SkillPlain(<<"fw_a">>, "n1"), SkillRich(d),
           SkillEmptyScripts(d),
           skill_with(Yaml(many_errors), no_files), skill_with(Yaml(many_errors), no_scripts),
           skill_with(Yaml(many_errors), TwoScripts(NetPy, Script("dotted"))),
           skill_with(Yaml(many_errors @@ [metadata |-> YStr(<<"notes">>)]),
                      TwoScripts(NetPy, Script("dotted")))}
          \cup {skill_with(Header(d), f) : f \in script_sets}
          \cup {skill_with(header_with(m), f) : m \in metadata_inputs, f \in script_sets}
          \cup {skill_with(header_with(m), no_files) : m \in metadata_inputs}
     ELSE IF d = <<"fw_a">>
     THEN {NoEntry, SkillPlain(DirA, "n1"), SkillPlain(d, "n1")}
     ELSE {NoEntry, SkillPlain(d, "n1")}

ToolOrders ==
  {<<DirA, DirB, <<"a", "b", "c">>, <<"a", "b", "b">>, <<"fw_a">>>>,
   <<<<"fw_a">>, <<"a", "b", "b">>, <<"a", "b", "c">>, DirB, DirA>>}

LookupNames == {DirA, DirB, <<"a", "b">>, <<"a", "b", "c">>, <<"fw_a">>, <<"z">>}

\* Names for _validate_name: the names of tests/test_validator.py in short,
\* the longest valid name and the shortest too long one, and names of the
\* ligature that NFKC writes as three letters.
NameInputs ==
  LET rep(a, n) == [i \in 1..n |-> a] IN
  {<<>>, <<"a">>, <<"A">>, <<"a", "B", "c">>, <<"-", "a">>, <<"a", "-">>,
   <<"a", "-", "-", "b">>, <<"a", "-", "b">>, <<"s", "-", "zh", "1">>, <<"fw_a">>,
   <<"a", "!">>, <<" ", "a", " ">>,
   rep("a", MAX_SKILL_NAME_LENGTH), rep("a", MAX_SKILL_NAME_LENGTH + 1),
   rep("ffi", MAX_SKILL_NAME_LENGTH \div 3), rep("ffi", (MAX_SKILL_NAME_LENGTH \div 3) + 1),
   rep("ffi", MAX_SKILL_NAME_LENGTH)}

\* One registry on the root, with no filter.
ToolInit ==
  /\ disk \in {[d \in ToolDirNames |->
                  CASE d = DirA -> e[1] [] d = DirB -> e[2] [] d = <<"a", "b", "c">> -> e[3]
                    [] d = <<"a", "b", "b">> -> e[4] [] d = <<"fw_a">> -> e[5]] :
                 e \in ToolEntries(DirA) \X ToolEntries(DirB) \X ToolEntries(<<"a", "b", "c">>)
                         \X ToolEntries(<<"a", "b", "b">>) \X ToolEntries(<<"fw_a">>)}
  /\ registry = [_skills |-> [set |-> FALSE, v |-> NoResult], data_dir |-> <<"session">>,
                 include |-> [given |-> FALSE, names |-> {}], exclude |-> {}]
  /\ op = Idle
  /\ result = NoResult
  /\ process = NoOverride(NoEnviron)

\* What a call of a validator function gives its caller.
Outcome(how, r, val) ==
  IF r.raised # "" THEN Raise(r.raised, "", <<>>) ELSE Ret(how, val, <<>>)

\* validate(root / d)
Validate(d) ==
  /\ op.phase = "idle"
  /\ LET give(v) == result' = Outcome("errors", v, v.errors)
     IN give(validate(disk[d], d))
  /\ op' = Done("validate", d, <<>>, NoArgs)
  /\ UNCHANGED <<disk, registry>>
  /\ UNCHANGED process

\* fix_dependencies(root / d); op keeps the directory as the call found it.
FixDependencies(d) ==
  /\ op.phase = "idle"
  /\ LET give(f) ==
           /\ result' = Outcome("added", f, f.added)
           /\ disk' = [disk EXCEPT ![d].tree = f.tree]
     IN give(fix_dependencies(disk[d]))
  /\ op' = [Done("fix_dependencies", d, <<>>, NoArgs) EXCEPT !.skill = <<disk[d]>>]
  /\ UNCHANGED registry
  /\ UNCHANGED process

\* The same call once more, right after the first one has ended.
FixDependenciesAgain ==
  /\ op.phase = "done" /\ op.call = "fix_dependencies"
  /\ LET give(f) ==
           /\ result' = Outcome("added", f, f.added)
           /\ disk' = [disk EXCEPT ![op.skill_name].tree = f.tree]
     IN give(fix_dependencies(disk[op.skill_name]))
  /\ op' = [op EXCEPT !.call = "fix_dependencies_again"]
  /\ UNCHANGED registry
  /\ UNCHANGED process

\* _validate_name(name) and _validate_name(name, root / dir_name)
ValidateName(name, dir_name) ==
  /\ op.phase = "idle"
  /\ result' = Ret("errors", _validate_name(YStr(name), dir_name), <<>>)
  /\ op' = Done("_validate_name", name, dir_name, NoArgs)
  /\ UNCHANGED <<disk, registry>>
  /\ UNCHANGED process

\* extract_imports(script_path), the script's text being content.
ExtractImports(content) ==
  /\ op.phase = "idle"
  /\ result' = Ret("imports", extract_imports(content), <<>>)
  /\ op' = [Done("extract_imports", <<>>, <<>>, NoArgs) EXCEPT !.skill = content]
  /\ UNCHANGED <<disk, registry>>
  /\ UNCHANGED process

ToolNext ==
  \/ \E d \in ToolDirNames : Validate(d)
  \/ \E d \in ToolDirNames : FixDependencies(d)
  \/ FixDependenciesAgain
  \/ \E n \in NameInputs : \E d \in {None, DirA} : ValidateName(n, d)
  \/ \E c \in ScriptInputs : ExtractImports(c)
  \/ \E order \in ToolOrders : ReadSkills(order)
  \/ \E order \in ToolOrders : \E n \in LookupNames : GetSkillByName(order, n)
  \/ \E order \in ToolOrders : \E n \in LookupNames : LoadSkill(order, n)
  \/ \E order \in ToolOrders : \E n \in LookupNames :
        ReadSkillResourceLookup(order, n, <<"notes">>, NoArgs)
  \/ ReadSkillResourceResolve
  \/ \E order \in ToolOrders : \E n \in LookupNames :
        RunSkillLookup(order, n, <<"notes">>, NoArgs)
  \/ RunSkillResolve
  \/ Return

ToolSpec == ToolInit /\ [][ToolNext]_vars

(***************************************************************************)
(* The functions that work on a text alone, called on every text of a few  *)
(* pieces: parse_frontmatter and the manifest rebuilder on manifests,       *)
(* extract_function_info, update_code and execute_script on scripts.       *)
(***************************************************************************)
MaxPieces == 5

\* Every text of at most MaxPieces pieces: delimiters, white space, plain
\* text, the header of a valid skill, one with a metadata mapping, and one
\* whose name is in upper case.
ManifestInputs ==
  LET pieces ==
        {Delim, Ws, Txt("body"), Header(DirA), Header(<<"A">>),
         Yaml([name |-> YStr(DirA), description |-> YStr(<<"d">>),
               metadata |-> YMap([author |-> YStr(<<"me">>)])])}
  IN UNION {[1..n -> pieces] : n \in 0..MaxPieces}

PureInit ==
  /\ disk = <<>>
  /\ registry = [_skills |-> [set |-> FALSE, v |-> NoResult], data_dir |-> <<"session">>,
                 include |-> [given |-> FALSE, names |-> {}], exclude |-> {}]
  /\ op = Idle
  /\ result = NoResult
  /\ process = NoOverride(NoEnviron)

\* parse_frontmatter(content): the pair it returns, or its ValueError.
ParseFrontmatter(content) ==
  /\ op.phase = "idle"
  /\ LET give(p) ==
           result' = IF p.err # "" THEN Raise("ValueError", p.err, <<>>)
                     ELSE Ret("parsed", p.metadata, p.body)
     IN give(parse_frontmatter(content))
  /\ op' = [Done("parse_frontmatter", <<>>, <<>>, NoArgs) EXCEPT !.skill = content]
  /\ UNCHANGED <<disk, registry>>
  /\ UNCHANGED process

\* parse_frontmatter(_rebuild_frontmatter(metadata, body)) on the pair a
\* parse has just returned; op keeps that pair.
ParseRebuilt ==
  /\ op.phase = "done" /\ op.call = "parse_frontmatter" /\ result.kind = "return"
  /\ LET give(p) ==
           result' = IF p.err # "" THEN Raise("ValueError", p.err, <<>>)
                     ELSE Ret("parsed", p.metadata, p.body)
     IN give(parse_frontmatter(_rebuild_frontmatter(result.val, result.src)))
  /\ op' = [op EXCEPT !.call = "parse_rebuilt", !.name = <<result>>]
  /\ UNCHANGED <<disk, registry>>
  /\ UNCHANGED process

MaxStatements == 3

\* Every text of at most MaxStatements statements: conftest's def add, a
\* second def add and one written inside another statement (a nested
\* function or a method), a def called args, the entry-point guard at top
\* level and inside another statement, a guard written with single quotes,
\* a class, a plain statement and a comment.  A nested statement comes
\* after the statement it is written in.
SourceInputs ==
  LET If(test, nested) == [t |-> "if", test |-> test, nested |-> nested]
      pieces ==
        {Def(<<"add">>, {"a", "b"}, "add", FALSE, TRUE),
         Def(<<"add">>, {"a"}, "first", FALSE, TRUE),
         Def(<<"add">>, {"self"}, "inner", TRUE, TRUE),
         Def(<<"args">>, {}, "zero", FALSE, TRUE),
         If("main", FALSE), If("main", TRUE), If("main_single_quotes", FALSE),
         [t |-> "class"], [t |-> "stmt"], [t |-> "comment", quotes |-> <<"add">>]}
      is_nested(p) == p.t \in {"def", "if"} /\ p.nested
      holds_block(p) == p.t \in {"def", "if", "class"}
  IN {s \in UNION {[1..n -> pieces] : n \in 0..MaxStatements} :
        \A i \in 1..Len(s) :
           is_nested(s[i]) => i > 1 /\ holds_block(s[i - 1])}

\* extract_function_info(source, function_name)
ExtractFunctionInfo(source, function_name) ==
  /\ op.phase = "idle"
  /\ result' = extract_function_info(source, function_name)
  /\ op' = [Done("extract_function_info", <<>>, function_name, NoArgs) EXCEPT !.skill = source]
  /\ UNCHANGED <<disk, registry>>
  /\ UNCHANGED process

\* update_code(source, new_call)
UpdateCode(source, new_call) ==
  /\ op.phase = "idle"
  /\ result' = update_code(source, new_call)
  /\ op' = [Done("update_code", <<>>, <<new_call>>, NoArgs) EXCEPT !.skill = source]
  /\ UNCHANGED <<disk, registry>>
  /\ UNCHANGED process

\* execute_script(content, function_name, args)
ExecuteScript(content, function_name, args) ==
  /\ op.phase = "idle"
  /\ result' = execute_script(content, function_name, args)
  /\ op' = [Done("execute_script", <<>>, function_name, Args(args)) EXCEPT !.skill = content]
  /\ UNCHANGED <<disk, registry>>
  /\ UNCHANGED process

PureNext ==
  \/ \E c \in ManifestInputs : ParseFrontmatter(c)
  \/ ParseRebuilt
  \/ \E s \in SourceInputs : \E f \in {<<"add">>, <<"args">>, <<"main">>} :
        ExtractFunctionInfo(s, f)
  \/ \E s \in SourceInputs : UpdateCode(s, Call(<<"add">>, <<>>))
  \/ \E s \in SourceInputs : \E f \in {<<"add">>, <<"args">>, <<"main">>} :
     \E a \in {<<>>, <<<<"a", 2>>, <<"b", 3>>>>} :
        ExecuteScript(s, f, a)
  \/ Return

PureSpec == PureInit /\ [][PureNext]_vars

(***************************************************************************)
(* A session: the MCP server's tools and the registry's own methods are    *)
(* called on a root beside the session's data directory.  Each call is     *)
(* followed step by step: the with-block of the server's wrapper, the      *)
(* with-block of the registry's method inside it, the body, and the way    *)
(* out through the finally clauses.                                        *)
(***************************************************************************)
\* The root has a/ and b/; the data directory is absent, empty, or holds a
\* manifest for a (SKILL.md), for b (skill.md), or a directory in the
\* place of a's.  XDG_DATA_HOME is unset, empty or set at the start.
SessionInit ==
  LET session == <<"session">>
      fragment(p, node) == SkillDir(p :> node)
      data_dirs ==
        {NoEntry, SkillDir(<<>>),
         fragment(<<"a", "/", "SKILL", ".", "md">>, File(<<Txt("memories")>>)),
         fragment(<<"b", "/", "skill", ".", "md">>, File(<<Txt("memories")>>)),
         fragment(<<"a", "/", "SKILL", ".", "md">>, Dir)}
  IN /\ disk \in {[d \in DirNames \cup {session} |->
                     IF d = DirA THEN e[1] ELSE IF d = DirB THEN e[2] ELSE e[3]] :
                    e \in {SkillPlain(DirA, "n1"), SkillRich(DirA), NoEntry}
                            \X {SkillPlain(DirB, "n1"), SkillScalarMetadata(DirB), NoEntry}
                            \X data_dirs}
     /\ registry \in Registries
     /\ op = Idle
     /\ result = NoResult
     /\ process \in {NoOverride(environ) :
                       environ \in {NoEnviron} \cup
                         {[k \in {"XDG_DATA_HOME"} |-> v] :
                            v \in {<<>>, <<"home">>, <<"session">>}}}

\* A tool of create_mcp_server is called: its with-block is entered.  op
\* keeps os.environ as the call found it and where the call came in.
ServerTool(call, skill_name, name) ==
  /\ op.phase = "idle"
  /\ process' = enter_env_override(process, registry.data_dir)
  /\ op' = [phase |-> "server", call |-> call, skill_name |-> skill_name, name |-> name,
            args |-> NoArgs, skill |-> <<process.environ, "server">>]
  /\ UNCHANGED <<disk, registry, result>>

\* load_skill, read_skill_resource or run_skill of the registry is called,
\* by the tool or by another caller: its with-block is entered.
RegistryCall(call, skill_name, name) ==
  /\ \/ op.phase = "idle"
        /\ op' = [phase |-> "registry", call |-> call, skill_name |-> skill_name,
                  name |-> name, args |-> NoArgs, skill |-> <<process.environ, "registry">>]
     \/ op.phase = "server" /\ op.call = call /\ op.skill_name = skill_name /\ op.name = name
        /\ op' = [op EXCEPT !.phase = "registry"]
  /\ process' = enter_env_override(process, registry.data_dir)
  /\ UNCHANGED <<disk, registry, result>>

\* The body of the method's with-block: it returns or raises.
CallBody(order) ==
  /\ op.phase = "registry"
  /\ LET resolve(tree) ==
           IF op.call = "read_skill_resource"
           THEN resolve_resource(tree, registry.data_dir, op.skill_name, op.name, op.args)
           ELSE resolve_run(tree, registry.data_dir, op.skill_name, op.name, op.args)
         find(s, skill) ==
           IF op.call = "load_skill"
           THEN result' = load_skill(skill, s, op.skill_name)
           ELSE IF skill.kind = "raise" THEN result' = skill
           ELSE IF skill.val = <<>>
           THEN result' = _raise_skill_not_found(get_skill_names(s), <<op.call>>,
                                                 op.skill_name)
           ELSE result' \in resolve(tree_of(disk, skill.val[1].directory))
         read(s) == find(s, get_skill_by_name(s, op.skill_name))
     IN read(skills(registry, disk, order).loaded)
  /\ op' = [op EXCEPT !.phase = "leaving"]
  /\ UNCHANGED <<disk, registry, process>>

\* The innermost open with-block is left, by the return or by the
\* exception: its finally clause runs.  The call has ended when no block
\* is open any more.
LeaveOverride ==
  /\ op.phase = "leaving"
  /\ process' = exit_env_override(process)
  /\ op' = [op EXCEPT !.phase = IF Len(process.old_values) = 1 THEN "done" ELSE "leaving"]
  /\ UNCHANGED <<disk, registry, result>>

SessionNext ==
  \/ \E c \in {"load_skill", "read_skill_resource", "run_skill"} :
     \E n \in SkillNames : \E r \in {<<"notes">>, <<"add">>} :
        ServerTool(c, n, IF c = "load_skill" THEN <<>> ELSE r)
  \/ \E c \in {"load_skill", "read_skill_resource", "run_skill"} :
     \E n \in SkillNames : \E r \in {<<"notes">>, <<"add">>} :
        RegistryCall(c, n, IF c = "load_skill" THEN <<>> ELSE r)
  \/ \E order \in Orders : CallBody(order)
  \/ LeaveOverride
  \/ Return

SessionSpec == SessionInit /\ [][SessionNext]_vars

(***************************************************************************)
(* The memory skill at work on its data directory: add_memory,             *)
(* view_memory, consolidate_memory and reset are called in any order.      *)
(* disk is the data directory, a tree of files; op is the latest call, the *)
(* number of calls so far, whether memory.txt holds only what add_memory   *)
(* wrote since the latest reset, and the hash the latest view_memory       *)
(* showed.                                                                 *)
(***************************************************************************)
MaxCalls == 3

\* reset(): memory.txt and history.txt are emptied; SKILL.md is not written.
reset(tree) ==
  (<<"memory", ".", "txt">> :> File(<<[t |-> "blank"]>>))
  @@ (<<"history", ".", "txt">> :> File(<<[t |-> "blank"]>>))
  @@ tree

\* k more add_memory("old") calls (an add_memory never leaves the directory
\* as it was; the comparison has each directory computed before the next).
RECURSIVE after_adds(_, _)
after_adds(tree, k) ==
  LET added == add_memory(tree, "old", <<>>) IN
  IF k = 0 \/ added = tree THEN tree ELSE after_adds(added, k - 1)

\* The directory after reset() and any number of add_memory("old") up to
\* MEMORY_WINDOW; the reset was made in a fresh directory, or in one whose
\* SKILL.md a former add_memory had written.
MemoryInit ==
  /\ LET fresh == [p \in {} |-> File(<<>>)]
         stale == add_memory(reset(fresh), "old", <<>>)
     IN disk \in {after_adds(reset(tree), k) : k \in 0..MEMORY_WINDOW, tree \in {fresh, stale}}
  /\ registry = [_skills |-> [set |-> FALSE, v |-> NoResult], data_dir |-> <<"memory">>,
                 include |-> [given |-> FALSE, names |-> {}], exclude |-> {}]
  /\ op = [call |-> "", text |-> "", group |-> <<>>, memories |-> <<>>, hash |-> <<>>,
           calls |-> 0, adds_only |-> TRUE, shown |-> <<>>]
  /\ result = NoResult
  /\ process = NoOverride(NoEnviron)

AddMemory(text, group) ==
  /\ op.calls < MaxCalls
  /\ disk' = add_memory(disk, text, group)
  /\ op' = [op EXCEPT !.call = "add_memory", !.text = text, !.group = group,
                      !.calls = @ + 1]
  /\ result' = Ret("None", "", <<>>)
  /\ UNCHANGED <<registry, process>>

\* view_memory(): the hash line, then the text of memory.txt.
ViewMemory ==
  /\ op.calls < MaxCalls
  /\ LET text == disk[<<"memory", ".", "txt">>].text IN
     /\ result' = Ret("view", text, _get_hash(text))
     /\ op' = [op EXCEPT !.call = "view_memory", !.calls = @ + 1,
                         !.shown = <<_get_hash(text)[3]>>]
  /\ UNCHANGED <<disk, registry, process>>

ConsolidateMemory(memories, hash) ==
  /\ op.calls < MaxCalls
  /\ LET done(out) ==
           /\ disk' = out.tree
           /\ result' = IF out.returned = "" THEN Ret("None", "", <<>>)
                        ELSE Ret("str", out.returned, <<>>)
           /\ op' = [op EXCEPT !.call = "consolidate_memory", !.memories = memories,
                               !.hash = hash, !.calls = @ + 1,
                               !.adds_only = @ /\ out.returned # ""]
     IN done(consolidate_memory(disk, memories, hash))
  /\ UNCHANGED <<registry, process>>

Reset ==
  /\ op.calls < MaxCalls
  /\ disk' = reset(disk)
  /\ op' = [op EXCEPT !.call = "reset", !.calls = @ + 1, !.adds_only = TRUE]
  /\ result' = Ret("None", "", <<>>)
  /\ UNCHANGED <<registry, process>>

\* The hash a caller passes is the one the latest view_memory showed, that
\* hash between white space, or the whole line that was shown; a caller
\* who has not looked passes "00".
MemoryNext ==
  \/ \E text \in {"old", "new"} : \E group \in {<<>>, <<"user">>} : AddMemory(text, group)
  \/ ViewMemory
  \/ \E memories \in {<<[t |-> "entry", group |-> <<"user">>, text |-> "merged"]>>,
                      <<[t |-> "plain", text |-> "merged"], [t |-> "blank"]>>} :
     \E shown \in {IF op.shown = <<>> THEN "00" ELSE op.shown[1]} :
     \E hash \in {<<shown>>, <<" ", shown, "\n">>, <<"hash_info:", " ", shown>>} :
        ConsolidateMemory(memories, hash)
  \/ Reset

MemorySpec == MemoryInit /\ [][MemoryNext]_vars

(***************************************************************************)
(* Properties of the registry scan                                         *)
(***************************************************************************)
\* C1, as stated: whenever SkillRegistry.skills returns a list, an immediate
\* subdirectory d of the root backs a Skill of the list if and only if
\* validate(d) returns an empty error list.
C1_CatalogIffValid ==
  [][(op.phase = "idle" /\ op'.call = "skills" /\ result'.kind = "return")
       => \A d \in DirNames :
            disk[d].kind = "dir"
              => ((\E i \in 1..Len(result'.val) : result'.val[i].directory = d)
                    <=> validate(disk[d], d) = Returned(<<>>))]_vars

\* C1, amended: d backs a Skill of the returned list if and only if
\* validate(d) returns an empty error list and the name d's manifest
\* declares passes the registry's include/exclude filter.
C1_CatalogIffValidAndKept ==
  [][(op.phase = "idle" /\ op'.call = "skills" /\ result'.kind = "return")
       => \A d \in DirNames :
            disk[d].kind = "dir"
              => ((\E i \in 1..Len(result'.val) : result'.val[i].directory = d)
                    <=> (/\ validate(disk[d], d) = Returned(<<>>)
                         /\ passes_filter(registry,
                              parse_frontmatter(disk[d].tree[SkillMd].text)
                                .metadata["name"].v)))]_vars

\* A read of skills returned a catalog of one skill while the root held two
\* directories that validate without an error: the filter dropped one.
C1_Witness ==
  /\ op.phase = "done" /\ op.call = "skills" /\ result.kind = "return"
  /\ Len(result.val) = 1
  /\ \A d \in DirNames : validate(disk[d], d) = Returned(<<>>)

\* C2: no registry call serves a cached catalog.  skills, get_skill_by_name
\* and load_skill give what a scan of the root as it is at the call gives;
\* read_skill_resource looks the skill up in the root as it is at the call,
\* and the file text it returns is the text the file of the skill's
\* directory holds when the resolver reads it, also when the directory was
\* changed after the lookup.
C2_NoCachedCatalog ==
  [][/\ (op.phase = "idle" /\ op'.call = "skills")
          => \E o \in Orders : result' = _load_skills(registry, disk, o)
     /\ (op.phase = "idle" /\ op'.call = "get_skill_by_name")
          => \E o \in Orders :
               result' = get_skill_by_name(_load_skills(registry, disk, o), op'.skill_name)
     /\ (op.phase = "idle" /\ op'.call = "load_skill")
          => \E o \in Orders :
               result' = load_skill(
                           get_skill_by_name(_load_skills(registry, disk, o), op'.skill_name),
                           _load_skills(registry, disk, o), op'.skill_name)
     /\ (op.phase = "idle" /\ op'.call = "read_skill_resource" /\ op'.phase = "scanned")
          => \E o \in Orders :
               Ret("skill", op'.skill, <<>>)
                 = get_skill_by_name(_load_skills(registry, disk, o), op'.skill_name)
     /\ (op.phase = "idle" /\ op'.call = "read_skill_resource" /\ op'.phase = "done")
          => \E o \in Orders :
               LET got == get_skill_by_name(_load_skills(registry, disk, o), op'.skill_name)
               IN got.kind = "raise" \/ got.val = <<>>
     /\ (op.phase = "scanned" /\ op'.phase = "done" /\ op.call = "read_skill_resource"
           /\ result'.tag = "file_text")
          => /\ disk[op.skill[1].directory].kind = "dir"
             /\ result'.src \in DOMAIN disk[op.skill[1].directory].tree
             /\ result'.val = disk[op.skill[1].directory].tree[result'.src].text]_vars

\* read_skill_resource returned the text of a SKILL.md that validation
\* rejects: the manifest was rewritten after the lookup had accepted the
\* skill, and the resolver returned what the rewrite left on disk.
C2_Witness ==
  /\ op.phase = "done" /\ op.call = "read_skill_resource"
  /\ result.tag = "file_text" /\ op.name = SkillMd
  /\ result.val = Manifest(Header(<<"A">>), "body")

\* C3: when no directory of the root makes a skill, reading skills, and
\* every call built on it, raises instead of returning an empty catalog,
\* and the error lists the validation errors of every rejected directory.
C3_EmptyCatalogRaisesWithIssues ==
  [][(/\ op.phase = "idle"
      /\ op'.call \in {"skills", "get_skill_by_name", "load_skill",
                       "read_skill_resource", "run_skill"}
      /\ \A d \in DirNames :
           ~(/\ validate(disk[d], d) = Returned(<<>>)
             /\ passes_filter(registry,
                  parse_frontmatter(disk[d].tree[SkillMd].text).metadata["name"].v)))
       => /\ result'.kind = "raise"
          /\ \A d \in DirNames :
               (disk[d].kind = "dir" /\ validate(disk[d], d).raised = "")
                 => \A i \in 1..Len(validate(disk[d], d).errors) :
                      \E j \in 1..Len(result'.src) :
                         result'.src[j] = validate(disk[d], d).errors[i]]_vars

\* C4: a directory whose manifest is present but in error is left out of
\* the catalog without ending the scan: validate returns its errors and
\* does not raise, and every directory that validates clean and passes the
\* filter is in the catalog that the read of skills returns.
C4_InvalidManifestIsSkipped ==
  [][(op.phase = "idle" /\ op'.call = "skills")
       => \A d \in DirNames :
            (disk[d].kind = "dir" /\ find_skill_md(disk[d].tree) # None)
              => /\ validate(disk[d], d).raised = ""
                 /\ Len(validate(disk[d], d).errors) > 0
                      => ~(/\ result'.kind = "return"
                           /\ \E i \in 1..Len(result'.val) : result'.val[i].directory = d)
                 /\ \A g \in DirNames :
                      (/\ validate(disk[g], g) = Returned(<<>>)
                       /\ passes_filter(registry,
                            parse_frontmatter(disk[g].tree[SkillMd].text)
                              .metadata["name"].v))
                        => /\ result'.kind = "return"
                           /\ \E i \in 1..Len(result'.val) : result'.val[i].directory = g]_vars

(***************************************************************************)
(* Properties of the resolver.  They are stated on the step in which       *)
(* read_skill_resource or run_skill works on the skill's directory, and    *)
(* on the directory as it is at that step.                                 *)
(***************************************************************************)
\* skill.directory's tree when the resolver works on it.
target_skill_dir == tree_of(disk, op.skill[1].directory)

\* The step of the call `call` that follows a successful lookup.
ResolveStep(call) == op.phase = "scanned" /\ op'.phase = "done" /\ op.call = call

\* What the patterns <name> and */<name> name in the skill directory:
\* files and directories alike.
matched_entries(tree, name) ==
  {p \in DOMAIN tree :
     \/ p = name
     \/ \E c \in DOMAIN tree :
          ~Contains(c, "/") /\ tree[c].dir /\ p = c \o <<"/">> \o name}

\* The files among them.
matched_files(tree, name) == {p \in matched_entries(tree, name) : ~tree[p].dir}

\* scripts/<resource_name>.py
script_py(name) == <<"scripts", "/">> \o name \o <<".", "py">>

\* The scripts of scripts/ that define the function `name` at top level.
scripts_defining(tree, name) ==
  {p \in DOMAIN tree :
     /\ IsScriptPath(p) /\ ~tree[p].dir
     /\ \E i \in 1..Len(tree[p].text) :
          /\ tree[p].text[i].t = "def" /\ tree[p].text[i].name = name
          /\ ~tree[p].text[i].nested}

\* The call ended with "Unable to find resource".
UnableToFind(r) ==
  r.kind = "raise" /\ r.tag = "Exception" /\ r.val = "Unable to find resource"

\* C5: a resource name that exactly matches a file of the skill directory,
\* or of a directory one level below it, makes read_skill_resource return
\* that file's text, with args None, empty or not; nothing is run.
C5_ExactFileReturnsText ==
  [][(ResolveStep("read_skill_resource")
        /\ matched_files(target_skill_dir, op.name) # {})
       => /\ result'.kind = "return" /\ result'.tag = "file_text"
          /\ \E p \in matched_files(target_skill_dir, op.name) :
               result'.src = p /\ result'.val = target_skill_dir[p].text]_vars

\* C6: read_skill_resource resolves in the order exact file, then
\* scripts/<name>.py, then a function of that name in a script: the result
\* of a later stage is given only when every earlier stage found nothing,
\* and when no stage matches the call raises "Unable to find resource",
\* never another error and never a result.
C6_FixedOrderThenNotFound ==
  [][ResolveStep("read_skill_resource")
       => /\ result'.tag \in {"script_text", "stdout"}
               => matched_files(target_skill_dir, op.name) = {}
          /\ result'.tag \in {"signature", "call"}
               => /\ matched_files(target_skill_dir, op.name) = {}
                  /\ ~exists(target_skill_dir, script_py(op.name))
          /\ (/\ matched_files(target_skill_dir, op.name) = {}
              /\ ~exists(target_skill_dir, script_py(op.name))
              /\ scripts_defining(target_skill_dir, op.name) = {})
               => UnableToFind(result')]_vars

\* The raise that follows the exact-match stage at once, before the script
\* and function stages are tried.
FailsImmediately(r) == UnableToFind(r) /\ r.src = <<"immediate">>

\* C7, as stated: a resource name that matched no file fails immediately
\* with the not-found error when it contains a path separator, and is
\* never rejected at this step when it contains none.
C7_SeparatorFailsImmediately ==
  [][(ResolveStep("read_skill_resource")
        /\ matched_entries(target_skill_dir, op.name) = {})
       => (FailsImmediately(result') <=> Contains(op.name, "/"))]_vars

\* C7, amended: a resource name that matched nothing in the skill
\* directory fails immediately with the not-found error, before the script
\* and function stages, when it contains a dot ".", and is never rejected
\* at this step when it contains no dot.
C7_DotFailsImmediately ==
  [][(ResolveStep("read_skill_resource")
        /\ matched_entries(target_skill_dir, op.name) = {})
       => (FailsImmediately(result') <=> Contains(op.name, "."))]_vars

\* read_skill_resource failed immediately on a dotted name although
\* scripts/<name>.py was there to be read.
C7_Witness ==
  /\ op.phase = "done" /\ op.call = "read_skill_resource"
  /\ FailsImmediately(result)
  /\ Contains(op.name, ".") /\ ~Contains(op.name, "/")
  /\ exists(target_skill_dir, script_py(op.name))

C9_FunctionInfoOrCall ==
  [][(/\ ResolveStep("read_skill_resource")
      /\ matched_entries(target_skill_dir, op.name) = {}
      /\ ~exists(target_skill_dir, script_py(op.name))
      /\ scripts_defining(target_skill_dir, op.name) # {})
       => /\ result'.kind = "return"
          /\ ~op.args.given
               => /\ result'.tag = "signature"
                  /\ \E p \in scripts_defining(target_skill_dir, op.name) :
                       \E i \in 1..Len(target_skill_dir[p].text) :
                          /\ target_skill_dir[p].text[i].t = "def"
                          /\ target_skill_dir[p].text[i].name = op.name
                          /\ result'.val = <<ToString(target_skill_dir[p].text[i].info)>>
          /\ op.args.given => result'.tag = "call"]_vars

\* C10: run_skill runs scripts/<name> as a process when it exists as a
\* file and returns its output; otherwise, when a script defines a function
\* of that name, it calls the function in-process and returns str() of its
\* value (add with {a: 2, b: 3} gives "5"); otherwise it raises "Failed to
\* execute".
C10_RunSkillCascade ==
  [][ResolveStep("run_skill")
       => LET script_path == IF op.name = <<>> THEN <<"scripts">>
                             ELSE <<"scripts", "/">> \o op.name
              there == exists(target_skill_dir, script_path)
          IN /\ (there /\ ~target_skill_dir[script_path].dir)
                  => /\ result'.kind = "return" /\ result'.tag = "stdout"
                     /\ result'.val = <<script_path>>
             /\ (~there /\ scripts_defining(target_skill_dir, op.name) # {})
                  => /\ result'.kind = "return" /\ result'.tag = "call"
                     /\ (op.name = <<"add">> /\ op.args = Args(<<<<"a", 2>>, <<"b", 3>>>>))
                          => result'.val = <<"5">>
             /\ (~there /\ scripts_defining(target_skill_dir, op.name) = {})
                  => /\ result'.kind = "raise" /\ result'.tag = "Exception"
                     /\ result'.val = "Failed to execute"]_vars

(***************************************************************************)
(* Properties of the lookups, of validate and of fix_dependencies, on the  *)
(* root of ToolSpec                                                        *)
(***************************************************************************)
\* The names of the catalog: what the directories that validate without an
\* error declare (the registry of ToolSpec filters nothing).
catalog_names ==
  {parse_frontmatter(disk[d].tree[SkillMd].text).metadata["name"].v :
     d \in {g \in ToolDirNames : validate(disk[g], g) = Returned(<<>>)}}

\* C11: load_skill, read_skill_resource and run_skill, called with a name
\* that no skill of the catalog has, raise "Could not find" and return
\* nothing; the message says "Did you mean" exactly when some name of the
\* catalog is similar to the given one (ratio 0.6 or more), and then it
\* lists at most 3 names, each a name of the catalog.
C11_UnknownNameRaisesCouldNotFind ==
  [][(/\ op.phase = "idle"
      /\ op'.call \in {"load_skill", "read_skill_resource", "run_skill"}
      /\ catalog_names # {}
      /\ op'.skill_name \notin catalog_names)
       => /\ op'.phase = "done"
          /\ result'.kind = "raise" /\ result'.val = "Could not find"
          /\ (Len(result'.src) = 4 /\ result'.src[3] = "Did you mean")
               <=> \E n \in catalog_names :
                     10 * 2 * matching_chars(n, op'.skill_name)
                       >= CloseMatchesCutoffTenths * (Len(n) + Len(op'.skill_name))
          /\ Len(result'.src) = 4
               => /\ Len(result'.src[4]) \in 1..CloseMatchesN
                  /\ \A i \in 1..Len(result'.src[4]) : result'.src[4][i] \in catalog_names]_vars

\* The manifest file of a directory, by either of its names.
manifest_text(entry) ==
  IF SkillMd \in DOMAIN entry.tree THEN entry.tree[SkillMd].text
  ELSE entry.tree[<<"skill", ".", "md">>].text

\* C12: validate checks, in this order, that the path exists, that it is a
\* directory, that it holds a manifest file, that the manifest parses and
\* that scripts/ is not empty; at the first check that fails it returns
\* that one error and nothing else; a list of field and dependency errors
\* is returned only when the five checks pass, and it is then the whole
\* list: the errors of the fields followed by those of the dependencies.
C12_FirstStructuralFailureAlone ==
  [][(op.phase = "idle" /\ op'.call = "validate") =>
       LET entry == disk[op'.skill_name]
           one(msg) == result' = Ret("errors", <<E(msg, <<>>)>>, <<>>)
           has_md == \/ SkillMd \in DOMAIN entry.tree
                     \/ <<"skill", ".", "md">> \in DOMAIN entry.tree
           parsed == parse_frontmatter(manifest_text(entry))
           empty_scripts == /\ <<"scripts">> \in DOMAIN entry.tree
                            /\ ~ \E p \in DOMAIN entry.tree : IsScriptPath(p)
       IN IF entry.kind = "none" THEN one("Path does not exist")
          ELSE IF entry.kind # "dir" THEN one("Not a directory")
          ELSE IF ~has_md THEN one("Missing required file: SKILL.md")
          ELSE IF parsed.err # "" THEN one(parsed.err)
          ELSE IF empty_scripts
          THEN one("scripts/ directory exists but no Python scripts found")
          ELSE result'.kind = "return"
                 => result'.val
                      = validate_metadata(parsed.metadata, op'.skill_name)
                          \o _validate_dependencies(parsed.metadata, entry.tree).errors]_vars

\* validate was called on a directory whose manifest has no front matter
\* and whose scripts/ is empty, and returned the parse error alone.
C12_Witness ==
  /\ op.phase = "done" /\ op.call = "validate" /\ result.kind = "return"
  /\ disk[op.skill_name].kind = "dir"
  /\ <<"scripts">> \in DOMAIN disk[op.skill_name].tree
  /\ ~ \E p \in DOMAIN disk[op.skill_name].tree : IsScriptPath(p)
  /\ SkillMd \in DOMAIN disk[op.skill_name].tree
  /\ parse_frontmatter(disk[op.skill_name].tree[SkillMd].text).err # ""
  /\ result.val
       = <<E(parse_frontmatter(disk[op.skill_name].tree[SkillMd].text).err, <<>>)>>

\* The directory passes the five structural checks of validate.
structure_ok(entry) ==
  /\ entry.kind = "dir"
  /\ find_skill_md(entry.tree) # None
  /\ parse_frontmatter(manifest_text(entry)).err = ""
  /\ find_scripts(entry.tree).err = ""

\* C13: the field rules are independent and all collected.  For a
\* directory that passes the structural checks, validate returns a list
\* that holds one error for each rule the manifest violates (unknown keys,
\* each rule of the name, the description, the compatibility, the
\* dependency coverage), whatever other rules are violated beside it.
C13_EveryViolatedRuleReported ==
  [][(op.phase = "idle" /\ op'.call = "validate" /\ structure_ok(disk[op'.skill_name])) =>
       LET metadata == parse_frontmatter(manifest_text(disk[op'.skill_name])).metadata
           tree == disk[op'.skill_name].tree
           n == NFKC(Strip(metadata["name"].v))
           named == /\ "name" \in DOMAIN metadata /\ metadata["name"].t = "str"
                    /\ Strip(metadata["name"].v) # <<>>
           declared == IF "metadata" \in DOMAIN metadata /\ metadata["metadata"].t = "map"
                       THEN declared_deps(metadata["metadata"].v) ELSE {}
           one(msg) == Cardinality({i \in 1..Len(result'.val) : result'.val[i].msg = msg}) = 1
       IN /\ result'.kind = "return"
          /\ DOMAIN metadata \ ALLOWED_FIELDS # {} => one("Unexpected fields in frontmatter")
          /\ (named /\ Len(n) > MAX_SKILL_NAME_LENGTH) => one("exceeds character limit")
          /\ (named /\ \E i \in 1..Len(n) : n[i] \in {"A", "B"}) => one("must be lowercase")
          /\ (named /\ (n[1] = "-" \/ n[Len(n)] = "-"))
               => one("Skill name cannot start or end with a hyphen")
          /\ (named /\ \E i \in 1..(Len(n) - 1) : n[i] = "-" /\ n[i + 1] = "-")
               => one("Skill name cannot contain consecutive hyphens")
          /\ (named /\ \E i \in 1..Len(n) : n[i] \notin Letters \cup Digits \cup {"-"})
               => one("contains invalid characters")
          /\ (named /\ n # NFKC(op'.skill_name)) => one("Directory name must match skill name")
          /\ ("description" \in DOMAIN metadata /\ metadata["description"].v = <<>>)
               => one("Field 'description' must be a non-empty string")
          /\ ("compatibility" \in DOMAIN metadata /\ metadata["compatibility"].t # "str")
               => one("Field 'compatibility' must be a string")
          /\ ~(all_imports(tree, find_scripts(tree).scripts) \subseteq declared)
               => one("Missing dependencies in metadata.dependencies")]_vars

\* A name breaks a rule of form: an upper-case letter, a hyphen at either
\* end, two hyphens in a row.
ill_formed(name) ==
  \/ \E i \in 1..Len(name) : name[i] \in {"A", "B"}
  \/ name # <<>> /\ (name[1] = "-" \/ name[Len(name)] = "-")
  \/ \E i \in 1..(Len(name) - 1) : name[i] = "-" /\ name[i + 1] = "-"

\* A name of 1 to 64 characters, each a lower-case letter (Latin or not,
\* the fullwidth a and the ligature among them), a digit or a hyphen.
well_formed(name) ==
  /\ Len(name) \in 1..MAX_SKILL_NAME_LENGTH
  /\ \A i \in 1..Len(name) :
       name[i] \in ((Letters \ {"A", "B"}) \cup {"fw_a"} \cup Digits \cup {"-"})
  /\ ~ill_formed(name)

C15_NameIsDirectoryName ==
  [][/\ (op.phase = "idle" /\ op'.call = "skills" /\ result'.kind = "return")
          => /\ \A i \in 1..Len(result'.val) :
                  NFKC(result'.val[i].name) = NFKC(result'.val[i].directory)
             /\ \A i, j \in 1..Len(result'.val) :
                  result'.val[i].name = result'.val[j].name => i = j
     /\ (/\ op.phase = "idle" /\ op'.call = "get_skill_by_name" /\ result'.kind = "return"
         /\ op'.skill_name \in ToolDirNames
         /\ validate(disk[op'.skill_name], op'.skill_name) = Returned(<<>>))
          => /\ Len(result'.val) = 1
             /\ result'.val[1].directory = op'.skill_name]_vars

\* C16: dependency coverage.  For a directory that passes the structural
\* checks, validate reports "Missing dependencies" exactly when some
\* module that the scripts of scripts/ import (extract_imports, over all
\* scripts) is not among the declared metadata.dependencies, a single str
\* counting as a list of one; the error names the missing modules, sorted;
\* without scripts/ there is no such error.
C16_MissingDependenciesReported ==
  [][(op.phase = "idle" /\ op'.call = "validate" /\ structure_ok(disk[op'.skill_name])) =>
       LET metadata == parse_frontmatter(manifest_text(disk[op'.skill_name])).metadata
           tree == disk[op'.skill_name].tree
           raw_deps == metadata["metadata"].v["dependencies"]
           declared ==
             IF /\ "metadata" \in DOMAIN metadata /\ metadata["metadata"].t = "map"
                /\ "dependencies" \in DOMAIN metadata["metadata"].v
             THEN IF raw_deps.t = "str" THEN {raw_deps.v}
                  ELSE {raw_deps.v[i] : i \in 1..Len(raw_deps.v)}
             ELSE {}
           missing ==
             UNION {extract_imports(tree[p].text) :
                      p \in {q \in DOMAIN tree : IsScriptPath(q)}} \ declared
           reported ==
             {result'.val[i].arg :
                i \in {j \in 1..Len(result'.val) :
                         result'.val[j].msg = "Missing dependencies in metadata.dependencies"}}
       IN IF missing # {}
          THEN result'.kind = "return" /\ reported = {Sorted(missing)}
          ELSE result'.kind = "return" => reported = {}]_vars

\* C17: extract_imports of a script that parses returns exactly the first
\* segments of the modules named by its absolute "import X" and "from X
\* import ..." statements that are not standard-library modules; a
\* relative import (one with leading dots) contributes nothing; a script
\* importing os, sys, json and requests gives {requests}.
C17_AbsoluteExternalImportsOnly ==
  [][(op.phase = "idle" /\ op'.call = "extract_imports" /\ Parsable(op'.skill))
       => /\ result'.val
               = {FirstSegment(op'.skill[i].module) :
                    i \in {j \in 1..Len(op'.skill) :
                             /\ op'.skill[j].t = "import"
                             /\ op'.skill[j].level = 0
                             /\ FirstSegment(op'.skill[j].module)[1] \notin STDLIB_MODULES}}
          /\ op'.skill = Script("std") => result'.val = {<<"requests">>}]_vars

\* C18: fix_dependencies is idempotent.  When the manifest of a directory
\* parses, a second call made right after a first one returns an empty
\* list and leaves metadata.dependencies as the first call wrote them.
C18_FixDependenciesIdempotent ==
  [][(/\ op.call = "fix_dependencies" /\ op'.call = "fix_dependencies_again"
      /\ op.skill[1].kind = "dir" /\ find_skill_md(op.skill[1].tree) # None
      /\ parse_frontmatter(manifest_text(op.skill[1])).err = "")
       => LET written(doc) ==
                IF /\ "metadata" \in DOMAIN doc.map /\ doc.map["metadata"].t = "map"
                   /\ "dependencies" \in DOMAIN doc.map["metadata"].v
                THEN <<doc.map["metadata"].v["dependencies"]>> ELSE <<>>
              deps(entry) == written(yaml_load(split_dashes(manifest_text(entry))[2]))
          IN /\ result'.kind = "return" /\ result'.val = <<>>
             /\ deps(disk'[op.skill_name]) = deps(disk[op.skill_name])]_vars

\* C19: when fix_dependencies(dir) returns names, they are the modules the
\* scripts import that were not declared, sorted; the manifest it leaves
\* declares as metadata.dependencies the sorted merge of the declared
\* dependencies and these names; and validate(dir), called next, returns a
\* list without a "Missing dependencies" error.
C19_FixDependenciesMerges ==
  [][(/\ op.phase = "idle" /\ op'.call = "fix_dependencies"
      /\ result'.kind = "return" /\ result'.val # <<>>) =>
       LET d == op'.skill_name
           before == parse_frontmatter(manifest_text(disk[d])).metadata
           declared == IF "metadata" \in DOMAIN before
                       THEN existing_deps(before["metadata"].v) ELSE <<>>
           imports == UNION {extract_imports(disk[d].tree[p].text) :
                               p \in {q \in DOMAIN disk[d].tree : IsScriptPath(q)}}
           new == imports \ {declared[i] : i \in 1..Len(declared)}
           after == parse_frontmatter(manifest_text(disk'[d]))
           merged == after.metadata["metadata"].v["dependencies"].v
           next == validate(disk'[d], d)
       IN /\ result'.val = Sorted(new)
          /\ after.err = ""
          /\ Len(merged) = Len(declared) + Cardinality(new)
          /\ {merged[i] : i \in 1..Len(merged)} = {declared[i] : i \in 1..Len(declared)} \cup new
          /\ \A i \in 1..(Len(merged) - 1) : ~StrLess(merged[i + 1], merged[i])
          /\ next.raised = ""
          /\ \A i \in 1..Len(next.errors) :
               next.errors[i].msg # "Missing dependencies in metadata.dependencies"]_vars

\* C20: when there is nothing to add (no scripts/, no script in it, no
\* import of a module outside the standard library, or every such module
\* already declared), fix_dependencies returns no name and leaves the
\* manifest file as it is.
C20_NothingToAddNothingWritten ==
  [][(op.phase = "idle" /\ op'.call = "fix_dependencies") =>
       LET d == op'.skill_name
           tree == disk[d].tree
           imports == UNION {extract_imports(tree[p].text) :
                               p \in {q \in DOMAIN tree : IsScriptPath(q)}}
           parsed == parse_frontmatter(manifest_text(disk[d]))
           all_declared ==
             /\ find_skill_md(tree) # None /\ parsed.err = ""
             /\ "metadata" \in DOMAIN parsed.metadata
             /\ parsed.metadata["metadata"].t = "map"
             /\ imports \subseteq declared_deps(parsed.metadata["metadata"].v)
       IN (imports = {} \/ all_declared)
            => /\ result'.kind = "return" /\ result'.val = <<>>
               /\ disk'[d] = disk[d]]_vars

(***************************************************************************)
(* Properties of the functions on texts                                    *)
(***************************************************************************)
\* C21: parse_frontmatter raises its parse error on a text that does not
\* begin with the delimiter and on one with fewer than two delimiters
\* (fewer than three segments); when it returns, the body is everything
\* after the second delimiter, trimmed, later delimiters included.
C21_BodyIsWholeRemainder ==
  (op.phase = "done" /\ op.call = "parse_frontmatter") =>
    LET content == op.skill
        second == Min(DelimAt(content) \ {Min(DelimAt(content))})
    IN /\ (content = <<>> \/ content[1].t # "delim") =>
             result.kind = "raise" /\ result.tag = "ValueError"
       /\ Cardinality(DelimAt(content)) < 2 =>
             result.kind = "raise" /\ result.tag = "ValueError"
       /\ result.kind = "return" =>
             result.src = strip_pieces(SubSeq(content, second + 1, Len(content)))

\* A parse has returned a body that holds a delimiter and text after it.
C21_Witness ==
  /\ op.phase = "done" /\ op.call = "parse_frontmatter" /\ result.kind = "return"
  /\ \E i \in 1..Len(result.src) : result.src[i].t = "delim" /\ i < Len(result.src)

\* C22: for a valid manifest, the name, the description and the body of
\* the first parse are what parsing the rebuilt manifest returns.
C22_RoundTrip ==
  (/\ op.phase = "done" /\ op.call = "parse_rebuilt"
   /\ validate_metadata(op.name[1].val, None) = <<>>) =>
    /\ result.kind = "return"
    /\ result.val["name"] = op.name[1].val["name"]
    /\ result.val["description"] = op.name[1].val["description"]
    /\ result.src = op.name[1].src

\* C23: extract_function_info describes the first top-level definition of
\* the name (never a later one, a nested function or a method), and raises
\* FunctionNotFoundError when no top-level definition has the name.
C23_FirstTopLevelDefinition ==
  (op.phase = "done" /\ op.call = "extract_function_info") =>
    LET source == op.skill
        top_level == {i \in 1..Len(source) :
                        /\ source[i].t = "def" /\ ~source[i].nested
                        /\ source[i].name = op.name}
    IN IF top_level = {}
       THEN result.kind = "raise" /\ result.tag = "FunctionNotFoundError"
       ELSE result.kind = "return" /\ result.val = source[Min(top_level)].info

\* C24: update_code returns for every parsable source; the text it returns
\* holds no entry-point guard, its statements are the statements of the
\* source outside the guard blocks, in order, followed by the call, and it
\* is the source followed by the call when the source has no guard.
C24_GuardsRemovedCallAppended ==
  (op.phase = "done" /\ op.call = "update_code" /\ Parsable(op.skill)) =>
    LET source == op.skill
        is_guard(p) == p.t = "if" /\ p.test = "main"
        is_nested(p) == p.t \in {"def", "if"} /\ p.nested
        \* in_guard[i]: statement i is a guard or is written inside one
        in_guard[i \in 1..Len(source)] ==
          \/ is_guard(source[i])
          \/ is_nested(source[i]) /\ i > 1 /\ in_guard[i - 1]
        others[i \in 0..Len(source)] ==
          IF i = 0 THEN <<>>
          ELSE IF source[i].t # "comment" /\ ~in_guard[i]
          THEN Append(others[i - 1], source[i]) ELSE others[i - 1]
        statements(text) == SelectSeq(text, LAMBDA p : p.t # "comment")
    IN /\ result.kind = "return"
       /\ \A i \in 1..Len(result.val) : ~is_guard(result.val[i])
       /\ statements(result.val) = others[Len(source)] \o op.name
       /\ (\A i \in 1..Len(source) : ~is_guard(source[i])) =>
             result.val = source \o op.name

\* C25: execute_script returns what the function bound to the name at top
\* level, outside the entry-point guard, returns for the keyword arguments
\* (5 for conftest's add with a = 2 and b = 3).
C25_ReturnsValueOfCall ==
  (op.phase = "done" /\ op.call = "execute_script") =>
    LET content == op.skill
        bound == {i \in 1..Len(content) :
                    /\ content[i].t = "def" /\ ~content[i].nested
                    /\ content[i].name = op.name}
        returns(value) == value.kind = "return" => result = value
    IN bound # {} => returns(call_function(content[Max(bound)], op.args.kv))

(***************************************************************************)
(* Properties of the registry's filter and of its session data directory   *)
(***************************************************************************)
\* C27: the names of a catalog are all in the include list when there is
\* one, and none is in the exclude list when there is none; a directory
\* that validates without an error and declares a name the filter keeps is
\* in the catalog that a read of skills gives; and get_skill_by_name never
\* returns a skill whose name the filter drops.
C27_FilterByDeclaredName ==
  LET kept(name) ==
        IF registry.include.given THEN name \in registry.include.names
        ELSE name \notin registry.exclude
      declared(d) == parse_frontmatter(disk[d].tree[SkillMd].text).metadata["name"].v
  IN /\ (op.phase = "done" /\ op.call = "skills") =>
          /\ result.kind = "return" =>
                \A i \in 1..Len(result.val) : kept(result.val[i].name)
          /\ \A d \in DirNames :
                (/\ disk[d].kind = "dir"
                 /\ validate(disk[d], d) = Returned(<<>>)
                 /\ kept(declared(d)))
                  => /\ result.kind = "return"
                     /\ \E i \in 1..Len(result.val) : result.val[i].directory = d
     /\ (/\ op.phase = "done" /\ op.call = "get_skill_by_name"
         /\ result.kind = "return" /\ result.val # <<>>) =>
          kept(result.val[1].name)

\* C26: when the session's data directory holds a manifest file under
\* <data_dir>/<skill name>/, load_skill returns the body of the skill's
\* own manifest followed by the text of that file; when it holds none,
\* load_skill returns the body alone.
C26_FragmentAppended ==
  (op.phase = "done" /\ op.call = "load_skill" /\ result.kind = "return") =>
    LET body == parse_frontmatter(disk[result.src].tree[SkillMd].text).body
        data == IF disk[registry.data_dir].kind = "dir"
                THEN disk[registry.data_dir].tree ELSE <<>>
        fragments == {p \in {op.skill_name \o <<"/", "SKILL", ".", "md">>,
                             op.skill_name \o <<"/", "skill", ".", "md">>} :
                        p \in DOMAIN data /\ ~data[p].dir}
        prose(text) == SelectSeq(text, LAMBDA piece : piece.t # "ws")
    IN IF fragments = {} THEN result.val = body
       ELSE \E p \in fragments : prose(result.val) = prose(body \o data[p].text)

\* C28: when a call of load_skill, read_skill_resource or run_skill has
\* ended, made through the server's tool or not, by a return or by an
\* exception, os.environ is what it was before the call (XDG_DATA_HOME
\* has its old value, or is not set if it was not) and no override is
\* left open.
C28_EnvironmentRestored ==
  (/\ op.phase = "done"
   /\ op.call \in {"load_skill", "read_skill_resource", "run_skill"}) =>
    process = NoOverride(op.skill[1])

\* A call made through the server's tool has ended with an exception, and
\* XDG_DATA_HOME was not set before it.
C28_Witness ==
  /\ op.phase = "done" /\ op.call = "run_skill" /\ op.skill[2] = "server"
  /\ result.kind = "raise"
  /\ "XDG_DATA_HOME" \notin DOMAIN op.skill[1]
  /\ "XDG_DATA_HOME" \notin DOMAIN process.environ

(***************************************************************************)
(* Properties of the memory skill                                          *)
(***************************************************************************)
\* C29, as stated: after reset() and add_memory calls only (view_memory in
\* between writes nothing), memory.txt holds at most MEMORY_WINDOW entries
\* and at most one warning line, the entry added last is in it, and
\* SKILL.md is the "## Memories" header, a blank line and the text of
\* memory.txt.
C29_WindowAndOneWarning ==
  (op.adds_only /\ op.call = "add_memory") =>
    LET text == disk[<<"memory", ".", "txt">>].text IN
    /\ Cardinality({i \in 1..Len(text) : text[i].t = "entry"}) <= MEMORY_WINDOW
    /\ Cardinality({i \in 1..Len(text) : text[i].t = "warning"}) <= 1
    /\ \E i \in 1..Len(text) :
          text[i] = [t |-> "entry", text |-> op.text,
                     group |-> IF op.group = <<>> THEN <<"notes">> ELSE op.group]
    /\ disk[<<"SKILL", ".", "md">>].text = <<[t |-> "heading"], [t |-> "blank"]>> \o text

\* C30, as stated: a consolidate_memory(memories, hash) whose hash is not
\* the hash view_memory shows for the file as it is leaves memory.txt and
\* SKILL.md as they were and returns the error text.
C30_ReplacedOnlyOnEqualHash ==
  [][(op'.call = "consolidate_memory" /\ op'.calls = op.calls + 1
      /\ op'.hash # <<_get_hash(disk[<<"memory", ".", "txt">>].text)[3]>>)
     => /\ disk' = disk
        /\ result'.kind = "return" /\ result'.tag = "str"]_vars

\* C30, with the hash read as the code reads it, without the white space
\* around it: a consolidate_memory whose trimmed hash is not the hash of
\* the file as it is writes nothing and returns the error text; so does
\* one that passes the hash of the latest view_memory after the file's
\* hash has changed.
C30_ReplacedOnlyOnTrimmedHash ==
  [][(op'.call = "consolidate_memory" /\ op'.calls = op.calls + 1)
     => LET current == <<_get_hash(disk[<<"memory", ".", "txt">>].text)[3]>>
            unchanged == /\ disk' = disk
                         /\ result'.kind = "return" /\ result'.tag = "str"
        IN /\ Strip(op'.hash) # current => unchanged
           /\ (Strip(op'.hash) = op.shown /\ op.shown # current) => unchanged]_vars

\* A consolidation with the hash of a view_memory that an add_memory or a
\* reset has made stale: it was refused.
C30_Witness ==
  /\ op.call = "consolidate_memory"
  /\ op.shown # <<>> /\ Strip(op.hash) = op.shown
  /\ op.shown # <<_get_hash(disk[<<"memory", ".", "txt">>].text)[3]>>
  /\ result.kind = "return" /\ result.tag = "str"

====
